---- MODULE Spec2Model ----
(***************************************************************************)
(* L-store: the two-phase lock manager (lstore/two_phase_lock.py), the     *)
(* transaction runtime (lstore/transaction.py) built on it, the            *)
(* transaction worker (lstore/transaction_worker.py) and the buffer pool   *)
(* (lstore/bufferpool.py).                                                 *)
(*                                                                         *)
(* Lock identifiers are '/'-separated strings in the source; here an item  *)
(* id is the sequence of its components, so item_id.split('/') is the      *)
(* sequence itself and an f-string join is sequence concatenation.         *)
(***************************************************************************)
EXTENDS Integers, Sequences, FiniteSets, TLC

VARIABLES lock_manager, last, universe, table, txn, transaction_id_counter,
          worker, bufferpool, disk, recency, query, history

vars == <<lock_manager, last, universe, table, txn, transaction_id_counter,
          worker, bufferpool, disk, recency, query, history>>

\* Python's None, as a value that is no transaction id
None == -1

\* class LockMode
SHARED == "SHARED"
EXCLUSIVE == "EXCLUSIVE"
LockMode == {SHARED, EXCLUSIVE}

\* class LockGranularity
TABLE == "TABLE"
PAGE == "PAGE"
RECORD == "RECORD"
LockGranularity == {TABLE, PAGE, RECORD}

\* number of transaction ids that call the lock manager directly
NumTxns == 2
TxnIds == 1..NumTxns

\* The (item_id, granularity) pairs the client threads request, in the two
\* id formats of the repository: the one of acquire_lock's docstring
\* ("table/page_1/rid_2") and the one of unit-tests/test_2PL_lock_level.py
\* ("Table", "Table/pagerange_0/base/page_0/offset_1"), a record below the
\* page "Table/pagerange_0/base/page_0".
DocRequests ==
    { <<(<<"table">>), TABLE>>,
      <<(<<"table", "page_1">>), PAGE>>,
      <<(<<"table", "page_1", "rid_2">>), RECORD>> }
PathRequests ==
    { <<(<<"Table">>), TABLE>>,
      <<(<<"Table", "pagerange_0", "base", "page_0">>), PAGE>>,
      <<(<<"Table", "pagerange_0", "base", "page_0", "offset_1">>), RECORD>> }
Universes == {DocRequests, PathRequests}
ItemsOf(requests) == {rq[1] : rq \in requests}

\* TwoPhaseLock.__init__
NewLockManager ==
    [transactions |-> {}, shrinking_phase |-> {},
     table_locks |-> <<>>, page_locks |-> <<>>, record_locks |-> <<>>]

\* TwoPhaseLock._get_lock_dict
_get_lock_dict(self, granularity) ==
    IF granularity = TABLE THEN self.table_locks
    ELSE IF granularity = PAGE THEN self.page_locks
    ELSE self.record_locks

\* the assignment through the dictionary _get_lock_dict returned
_set_lock_dict(self, granularity, lock_dict) ==
    IF granularity = TABLE THEN [self EXCEPT !.table_locks = lock_dict]
    ELSE IF granularity = PAGE THEN [self EXCEPT !.page_locks = lock_dict]
    ELSE [self EXCEPT !.record_locks = lock_dict]

\* dict[item_id] = lock_info
DictPut(lock_dict, item_id, lock_info) ==
    [k \in (DOMAIN lock_dict) \cup {item_id} |->
        IF k = item_id THEN lock_info ELSE lock_dict[k]]

\* TwoPhaseLock._has_lock
_has_lock(transaction_id, item_id, lock_dict) ==
    IF item_id \notin DOMAIN lock_dict THEN FALSE
    ELSE transaction_id \in lock_dict[item_id].readers
         \/ lock_dict[item_id].writer = transaction_id

\* the writer test _check_parent_locks makes on one parent dictionary
WriterConflict(lock_dict, parent_id, transaction_id) ==
    /\ parent_id \in DOMAIN lock_dict
    /\ lock_dict[parent_id].writer # None
    /\ lock_dict[parent_id].writer # transaction_id

\* TwoPhaseLock._check_parent_locks; parts = item_id.split('/')
_check_parent_locks(self, transaction_id, item_id, mode, granularity) ==
    LET parts == item_id IN
    IF granularity = RECORD THEN
        LET table_id == <<parts[1]>>
            page_id == <<parts[1], parts[2]>>
        IN  IF WriterConflict(self.table_locks, table_id, transaction_id) THEN FALSE
            ELSE IF WriterConflict(self.page_locks, page_id, transaction_id) THEN FALSE
            ELSE TRUE
    ELSE IF granularity = PAGE THEN
        LET table_id == <<parts[1]>>
        IN  IF WriterConflict(self.table_locks, table_id, transaction_id) THEN FALSE
            ELSE TRUE
    ELSE TRUE

InShrinkingPhase_Never(self, transaction_id) ==
    FALSE

\* the shrinking-phase test of acquire_lock
InShrinkingPhase(self, transaction_id) ==
    transaction_id \in self.shrinking_phase

\* the SHARED branch's condition
SharedGrantable(lock_info, transaction_id) ==
    lock_info.writer = None \/ lock_info.writer = transaction_id

ExclusiveGrantable_Always(lock_info, transaction_id) == TRUE

ExclusiveGrantable_IgnoreReaders(lock_info, transaction_id) ==
    lock_info.writer = None \/ lock_info.writer = transaction_id

\* the EXCLUSIVE branch's condition
ExclusiveGrantable(lock_info, transaction_id) ==
    /\ (lock_info.readers = {} \/ lock_info.readers = {transaction_id})
    /\ (lock_info.writer = None \/ lock_info.writer = transaction_id)

GrantShared_Replace(lock_info, transaction_id) ==
    [lock_info EXCEPT !.readers = {transaction_id}]

\* the SHARED branch's grant
GrantShared(lock_info, transaction_id) ==
    [lock_info EXCEPT !.readers = @ \cup {transaction_id}]

\* the EXCLUSIVE branch's grant
GrantExclusive(lock_info, transaction_id) ==
    [lock_info EXCEPT !.writer = transaction_id]

\* TwoPhaseLock.acquire_lock: the manager afterwards and the value returned
acquire_lock(self, transaction_id, item_id, mode, granularity) ==
    LET s1 == [self EXCEPT !.transactions = @ \cup {transaction_id}]
        lock_dict == _get_lock_dict(s1, granularity)
    IN
    IF InShrinkingPhase(s1, transaction_id) THEN [self |-> s1, ret |-> FALSE]
    ELSE IF _has_lock(transaction_id, item_id, lock_dict) THEN [self |-> s1, ret |-> TRUE]
    ELSE IF ~_check_parent_locks(s1, transaction_id, item_id, mode, granularity)
         THEN [self |-> s1, ret |-> FALSE]
    ELSE
        LET d1 == IF item_id \notin DOMAIN lock_dict
                  THEN DictPut(lock_dict, item_id, [readers |-> {}, writer |-> None])
                  ELSE lock_dict
            lock_info == d1[item_id]
        IN
        IF mode = SHARED THEN
            IF SharedGrantable(lock_info, transaction_id)
            THEN [self |-> _set_lock_dict(s1, granularity,
                              DictPut(d1, item_id, GrantShared(lock_info, transaction_id))),
                  ret |-> TRUE]
            ELSE [self |-> _set_lock_dict(s1, granularity, d1), ret |-> FALSE]
        ELSE
            IF ExclusiveGrantable(lock_info, transaction_id)
            THEN [self |-> _set_lock_dict(s1, granularity,
                              DictPut(d1, item_id, GrantExclusive(lock_info, transaction_id))),
                  ret |-> TRUE]
            ELSE [self |-> _set_lock_dict(s1, granularity, d1), ret |-> FALSE]

ReleaseIn_KeepWriter(lock_dict, transaction_id, item_id) ==
    IF item_id \in DOMAIN lock_dict
    THEN [lock_dict EXCEPT ![item_id].readers = @ \ {transaction_id}]
    ELSE lock_dict

\* the body of release_lock's loop for one dictionary
ReleaseIn(lock_dict, transaction_id, item_id) ==
    IF item_id \in DOMAIN lock_dict
    THEN [lock_dict EXCEPT ![item_id] =
            [readers |-> @.readers \ {transaction_id},
             writer |-> IF @.writer = transaction_id THEN None ELSE @.writer]]
    ELSE lock_dict

\* TwoPhaseLock.release_lock
release_lock(self, transaction_id, item_id) ==
    IF transaction_id \notin self.transactions THEN self
    ELSE [self EXCEPT
            !.shrinking_phase = @ \cup {transaction_id},
            !.record_locks = ReleaseIn(@, transaction_id, item_id),
            !.page_locks = ReleaseIn(@, transaction_id, item_id),
            !.table_locks = ReleaseIn(@, transaction_id, item_id)]

NoCall == [op |-> "none"]

\* a thread calls acquire_lock
CallAcquire(t, item_id, mode, granularity) ==
    LET r == acquire_lock(lock_manager, t, item_id, mode, granularity) IN
    /\ lock_manager' = r.self
    /\ last' = [op |-> "acquire", t |-> t, item |-> item_id, mode |-> mode,
                g |-> granularity, ret |-> r.ret]
    /\ UNCHANGED <<worker, bufferpool, disk, recency, query, history, universe, table, txn, transaction_id_counter>>

\* a thread calls release_lock
CallRelease(t, item_id) ==
    /\ lock_manager' = release_lock(lock_manager, t, item_id)
    /\ last' = [op |-> "release", t |-> t, item |-> item_id]
    /\ UNCHANGED <<worker, bufferpool, disk, recency, query, history, universe, table, txn, transaction_id_counter>>

InitLock ==
    /\ lock_manager = NewLockManager
    /\ last = NoCall
    /\ universe \in Universes
    /\ table = <<>>
    /\ txn = <<>>
    /\ transaction_id_counter = 0
    /\ worker = <<>>
    /\ bufferpool = <<>>
    /\ disk = <<>>
    /\ recency = <<>>
    /\ query = <<>>
    /\ history = <<>>

NextLock ==
    \/ \E t \in TxnIds, rq \in universe, mode \in LockMode :
          CallAcquire(t, rq[1], mode, rq[2])
    \/ \E t \in TxnIds, item_id \in ItemsOf(universe) : CallRelease(t, item_id)

SpecLock == InitLock /\ [][NextLock]_vars


(***************************************************************************)
(* Transaction (lstore/transaction.py) over one table.  A step of a        *)
(* transaction's thread runs its code up to and including the next access  *)
(* to shared state: a lock-manager call (atomic under TwoPhaseLock.mut), a *)
(* read of the page directory, or the execution of a query.                *)
(***************************************************************************)

\* Python's True and False as returned by a query, commit() and abort()
PyTrue == "True"
PyFalse == "False"
\* run() has not returned
NoResult == "None"

\* lstore/config.py
PAGE_RECORD_SIZE == 4
PAGE_RANGE_SIZE == 2

\* longest query list of a transaction
MaxQueries == 1

\* Query's methods a transaction holds; the test a in b on __name__
QueryNames == {"insert", "update", "delete", "select", "sum"}
NameContainsUpdate(name) == name \in {"update"}
NameContainsInsert(name) == name \in {"insert"}

\* args[0] of a query that is not an insert: a rid of the page directory,
\* or a value that is not one of its keys
PresentRid == "b0"
AbsentRid == "b9"

\* primary keys (column 0 of a record; ints in the code, written here as
\* their decimal strings, which no rid equals): the key the setUp of the
\* unit tests inserts, and a key no record has
ExistingKey == "3005"
NewKey == "3007"

\* the (query, args) pairs added with add_query; arg is args[0]; valid:
\* every column of an insert is an int (Query._verify_insert_input)
Queries ==
    {[name |-> "insert", arg |-> ExistingKey, valid |-> TRUE],
     [name |-> "insert", arg |-> NewKey, valid |-> TRUE],
     [name |-> "insert", arg |-> NewKey, valid |-> FALSE]}
    \cup {[name |-> n, arg |-> PresentRid, valid |-> TRUE] :
            n \in QueryNames \ {"insert"}}
    \cup {[name |-> "select", arg |-> AbsentRid, valid |-> TRUE]}

QueryLists == UNION {[1..n -> Queries] : n \in 1..MaxQueries}

\* Table.__init__: os.path.join(db_path, "_tables", name) for the database
\* './ECS165' and the table 'Grades' of the unit tests
TablePath == <<".", "ECS165", "_tables", "Grades">>

\* f"{table.path}/pagerange_{i}/base/page_{j}"
BasePagePath(pagerange_index, page_index) ==
    TablePath \o <<"pagerange_" \o ToString(pagerange_index), "base",
                   "page_" \o ToString(page_index)>>

\* Table.__init__: the fields the transaction runtime reads and inserts
\* write; last_path is kept as its (page range, page) indices and
\* last_num_records is num_records of the page at last_path; of the index,
\* primary_key_cache and the (primary_key, rid) entries of sorted_records
NewTable ==
    [name |-> "Grades", page_directory |-> <<>>, current_base_rid |-> 0,
     last_pagerange_index |-> 0, last_page_index |-> 0, last_num_records |-> 0,
     primary_key_cache |-> <<>>, sorted_records |-> {}]

\* Query.insert: the table afterwards and the value returned; the lookup
\* of an existing record with the same key is commented out in the code
QueryInsert(tbl, primary_key, valid) ==
    IF ~valid THEN [table |-> tbl, result |-> PyFalse]
    ELSE
        LET rid == "b" \o ToString(tbl.current_base_rid)
            has_capacity == tbl.last_num_records < PAGE_RECORD_SIZE
            same_range == tbl.last_page_index + 1 < PAGE_RANGE_SIZE
            pr == IF has_capacity \/ same_range THEN tbl.last_pagerange_index
                  ELSE tbl.last_pagerange_index + 1
            pg == IF has_capacity THEN tbl.last_page_index
                  ELSE IF same_range THEN tbl.last_page_index + 1
                  ELSE 0
            offset == IF has_capacity THEN tbl.last_num_records ELSE 0
        IN  [table |->
                [tbl EXCEPT
                    !.primary_key_cache = DictPut(@, primary_key, rid),
                    !.sorted_records = @ \cup {<<primary_key, rid>>},
                    !.page_directory =
                        DictPut(@, rid, <<BasePagePath(pr, pg), offset>>),
                    !.current_base_rid = @ + 1,
                    !.last_pagerange_index = pr,
                    !.last_page_index = pg,
                    !.last_num_records = offset + 1],
             result |-> PyTrue]

\* the table of the unit tests' setUp: created, then one record inserted
InitTable == QueryInsert(NewTable, ExistingKey, TRUE).table

\* Transaction._get_lock_ids: (table_lock_id, page_lock_id, record_lock_id)
_get_lock_ids(tbl, rid) ==
    LET table_name == tbl.name
        page_index == tbl.page_directory[rid][1]
        table_lock_id == <<table_name>>
        page_lock_id == <<table_name, "page_" \o Head(page_index)>> \o Tail(page_index)
        record_lock_id == page_lock_id \o <<rid>>
    IN  <<table_lock_id, page_lock_id, record_lock_id>>

\* Transaction.__init__ followed by add_query for each query of the list
NewTransaction(transaction_id, queries) ==
    [transaction_id |-> transaction_id, queries |-> queries, changes |-> <<>>,
     held_locks |-> <<>>, pc |-> "run", qi |-> 1, ids |-> <<>>,
     todo |-> <<>>, method |-> "run", result |-> NoResult]

TxnObjs == 0..(NumTxns - 1)

\* self.held_locks[item_id] = (granularity, mode) on an OrderedDict
HeldPut(held_locks, item_id, granularity, mode) ==
    LET entry == [item |-> item_id, g |-> granularity, mode |-> mode] IN
    IF \E i \in 1..Len(held_locks) : held_locks[i].item = item_id
    THEN [i \in 1..Len(held_locks) |->
            IF held_locks[i].item = item_id THEN entry ELSE held_locks[i]]
    ELSE Append(held_locks, entry)

Reverse(seq) == [i \in 1..Len(seq) |-> seq[Len(seq) + 1 - i]]

ReleaseOrder_Forward(held_locks) ==
    [i \in 1..Len(held_locks) |-> held_locks[i].item]

ReleaseOrder_SkipFirst(held_locks) ==
    LET rev == Reverse(held_locks) IN
    IF rev = <<>> THEN <<>>
    ELSE [i \in 1..(Len(rev) - 1) |-> rev[i].item]

\* for item_id in reversed(self.held_locks)
ReleaseOrder(held_locks) ==
    [i \in 1..Len(held_locks) |-> Reverse(held_locks)[i].item]

\* lock_mode of Transaction.run
LockModeOf(name) ==
    LET is_write == NameContainsUpdate(name) \/ NameContainsInsert(name) IN
    IF is_write THEN EXCLUSIVE ELSE SHARED

\* the position in run() where the loop body starts for the query at qi,
\* or commit() when the loop is over
StartOf(self, qi) ==
    IF qi > Len(self.queries) THEN "commit"
    ELSE IF NameContainsInsert(self.queries[qi].name) THEN "table"
    ELSE "ids"

\* return True of commit(), return False of abort()
ReturnOf(method) == IF method = "commit" THEN PyTrue ELSE PyFalse

\* the release loop shared by commit() and abort(), up to its first
\* release_lock call; with nothing to release the method returns
BeginRelease(self, method) ==
    LET todo == ReleaseOrder(self.held_locks) IN
    IF todo = <<>>
    THEN [self EXCEPT !.pc = "done", !.method = method, !.held_locks = <<>>,
                      !.result = ReturnOf(method)]
    ELSE [self EXCEPT !.pc = "release", !.method = method, !.todo = todo]

\* Transaction.commit
commit(self) == BeginRelease(self, "commit")

\* Transaction.abort, called from run(): Index has no get_key, so the
\* rollback loop raises AttributeError on its first entry; the handler of
\* run() calls abort() again, which raises out of run()
abort(self) ==
    IF self.changes # <<>>
    THEN [self EXCEPT !.pc = "raised", !.method = "abort",
                      !.result = "AttributeError"]
    ELSE BeginRelease(self, "abort")

\* the end of the loop body: the next query, or commit()
NextQuery(self) ==
    LET s1 == [self EXCEPT !.qi = @ + 1] IN
    IF StartOf(s1, s1.qi) = "commit" THEN commit(s1)
    ELSE [s1 EXCEPT !.pc = StartOf(s1, s1.qi)]

\* the transaction's thread enters run()
Run(t) ==
    /\ txn[t].pc = "run"
    /\ txn' = [txn EXCEPT ![t] =
                IF StartOf(txn[t], 1) = "commit" THEN commit(txn[t])
                ELSE [txn[t] EXCEPT !.pc = StartOf(txn[t], 1)]]
    /\ last' = [op |-> "run", t |-> t]
    /\ UNCHANGED <<worker, bufferpool, disk, recency, query, history, lock_manager, universe, table, transaction_id_counter>>

\* rid = args[0]; self._get_lock_ids(table, rid)
GetLockIds(t) ==
    LET self == txn[t]
        rid == self.queries[self.qi].arg
    IN
    /\ self.pc = "ids"
    /\ txn' = [txn EXCEPT ![t] =
                IF rid \in DOMAIN table.page_directory
                THEN [@ EXCEPT !.pc = "table", !.ids = _get_lock_ids(table, rid)]
                ELSE abort(@)]
    /\ last' = [op |-> "ids", t |-> t]
    /\ UNCHANGED <<worker, bufferpool, disk, recency, query, history, lock_manager, universe, table, transaction_id_counter>>

\* one acquire_lock call of run() with the bookkeeping after it
Acquire(t, at, item_id, granularity, next) ==
    LET self == txn[t]
        name == self.queries[self.qi].name
        lock_mode == LockModeOf(name)
        r == acquire_lock(lock_manager, self.transaction_id, item_id,
                          lock_mode, granularity)
    IN
    /\ self.pc = at
    /\ lock_manager' = r.self
    /\ txn' = [txn EXCEPT ![t] =
                IF r.ret
                THEN [@ EXCEPT !.pc = next,
                               !.held_locks = HeldPut(@, item_id, granularity, lock_mode)]
                ELSE abort(@)]
    /\ last' = [op |-> "acquire", t |-> self.transaction_id, item |-> item_id,
                mode |-> lock_mode, g |-> granularity, ret |-> r.ret,
                query |-> name]
    /\ UNCHANGED <<worker, bufferpool, disk, recency, query, history, universe, table, transaction_id_counter>>

AcquireTable(t) ==
    LET self == txn[t] IN
    /\ self.pc = "table"
    /\ IF NameContainsInsert(self.queries[self.qi].name)
       THEN Acquire(t, "table", <<table.name>>, TABLE, "exec")
       ELSE Acquire(t, "table", self.ids[1], TABLE, "page")

AcquirePage(t) ==
    /\ txn[t].pc = "page"
    /\ Acquire(t, "page", txn[t].ids[2], PAGE, "record")

AcquireRecord(t) ==
    /\ txn[t].pc = "record"
    /\ Acquire(t, "record", txn[t].ids[3], RECORD, "exec")

\* result = query(*args) for an insert, with the change log entry
ExecInsert(t) ==
    LET self == txn[t]
        q == self.queries[self.qi]
        r == QueryInsert(table, q.arg, q.valid)
    IN
    /\ self.pc = "exec"
    /\ NameContainsInsert(q.name)
    /\ table' = r.table
    /\ txn' = [txn EXCEPT ![t] =
                IF r.result = PyTrue
                THEN NextQuery([@ EXCEPT !.changes =
                        Append(@, [rid |-> r.result, is_insert |-> TRUE])])
                ELSE abort(@)]
    /\ last' = [op |-> "exec", t |-> t, query |-> q.name, result |-> r.result]
    /\ UNCHANGED <<worker, bufferpool, disk, recency, query, history, lock_manager, universe, transaction_id_counter>>

\* result = query(*args) for any other query: the callable returns a truthy
\* value, a falsy value, or raises
QueryOutcomes == {"ok", "fail", "raise"}

ExecOther(t) ==
    LET self == txn[t]
        q == self.queries[self.qi]
        logged == IF NameContainsUpdate(q.name)
                  THEN [self EXCEPT !.changes =
                            Append(@, [rid |-> q.arg, is_insert |-> FALSE])]
                  ELSE self
    IN
    /\ self.pc = "exec"
    /\ ~NameContainsInsert(q.name)
    /\ \E outcome \in QueryOutcomes :
        /\ txn' = [txn EXCEPT ![t] =
                    IF outcome = "ok" THEN NextQuery(logged) ELSE abort(logged)]
        /\ last' = [op |-> "exec", t |-> t, query |-> q.name, result |-> outcome]
    /\ UNCHANGED <<worker, bufferpool, disk, recency, query, history, lock_manager, universe, table, transaction_id_counter>>

\* one iteration of the release loop of commit() or abort(); after the last
\* one held_locks.clear() and the return
Release(t) ==
    LET self == txn[t] IN
    /\ self.pc = "release"
    /\ lock_manager' = release_lock(lock_manager, self.transaction_id, Head(self.todo))
    /\ txn' = [txn EXCEPT ![t] =
                IF Tail(self.todo) = <<>>
                THEN [@ EXCEPT !.pc = "done", !.todo = <<>>, !.held_locks = <<>>,
                               !.result = ReturnOf(self.method)]
                ELSE [@ EXCEPT !.todo = Tail(@)]]
    /\ last' = [op |-> "release", t |-> self.transaction_id, item |-> Head(self.todo)]
    /\ UNCHANGED <<worker, bufferpool, disk, recency, query, history, universe, table, transaction_id_counter>>

InitTxn ==
    /\ lock_manager = NewLockManager
    /\ last = NoCall
    /\ universe = {}
    /\ table = InitTable
    /\ transaction_id_counter = NumTxns
    /\ worker = <<>>
    /\ bufferpool = <<>>
    /\ disk = <<>>
    /\ recency = <<>>
    /\ query = <<>>
    /\ history = <<>>
    /\ \E qs \in [TxnObjs -> QueryLists] :
          txn = [t \in TxnObjs |-> NewTransaction(t, qs[t])]

NextTxn ==
    \E t \in TxnObjs :
        \/ Run(t)
        \/ GetLockIds(t)
        \/ AcquireTable(t)
        \/ AcquirePage(t)
        \/ AcquireRecord(t)
        \/ ExecInsert(t)
        \/ ExecOther(t)
        \/ Release(t)

SpecTxn == InitTxn /\ [][NextTxn]_vars


(***************************************************************************)
(* TransactionWorker (lstore/transaction_worker.py).  Each worker's thread *)
(* runs _run over its list; transaction.run() inside it takes the steps of *)
(* the Transaction above, interleaved with those of the other workers.     *)
(***************************************************************************)

Workers == {0, 1}

\* if i > 1000: break
RetryLimit == 1000

\* the tag _run compares the second component of run()'s value with
DupeTag == "dupe_error"

\* the queries the workers' transactions hold: inserts of an indexed and of
\* a new key, and updates given the primary key (as Query.update takes it)
\* or a rid (as run() looks it up in the page directory)
WorkerQueries ==
    {[name |-> "insert", arg |-> ExistingKey, valid |-> TRUE],
     [name |-> "insert", arg |-> NewKey, valid |-> TRUE],
     [name |-> "update", arg |-> ExistingKey, valid |-> TRUE],
     [name |-> "update", arg |-> PresentRid, valid |-> TRUE]}

WorkerQueryLists == UNION {[1..n -> WorkerQueries] : n \in 1..MaxQueries}

\* TransactionWorker.__init__ with a list of transactions; index is the
\* position of the for loop, cur the Transaction whose run() is in
\* progress, i the retry counter, log what _run did with each transaction
NewWorker(transactions) ==
    [transactions |-> transactions, index |-> 1, i |-> 0,
     cur |-> IF transactions = <<>> THEN None ELSE transactions[1],
     log |-> <<>>]

\* commit() and abort() return a bool, and so does run()
IsBool(value) == value \in {PyTrue, PyFalse}

\* result, dupe = <value of run()>: a bool is not iterable
Unpack(value) ==
    IF IsBool(value) THEN [error |-> "TypeError"]
    ELSE [error |-> "none", result |-> value[1], dupe |-> value[2]]

\* the for loop moves to the next transaction of the list
NextTransaction(self, entry) ==
    LET index == self.index + 1 IN
    [self EXCEPT !.index = index, !.i = 0, !.log = Append(@, entry),
                 !.cur = IF index > Len(self.transactions) THEN None
                         ELSE self.transactions[index]]

\* the Transaction whose run() the worker's thread is inside of, if any
RunningOf(w) ==
    IF worker[w].cur # None /\ txn[worker[w].cur].pc \notin {"done", "raised"}
    THEN {worker[w].cur}
    ELSE {}

\* _run from the point where run() of the current attempt has ended to the
\* next call of run(): the unpacking of its value, the retry loop, the
\* exception handler, and the step of the for loop
AfterRun(w) ==
    LET self == worker[w]
        t == self.cur
        entry == [transaction |-> self.transactions[self.index],
                  attempts |-> self.i + 1, value |-> txn[t].result,
                  caught |-> "none"]
        u == Unpack(txn[t].result)
        fresh == transaction_id_counter
    IN
    /\ self.cur # None
    /\ txn[t].pc \in {"done", "raised"}
    /\ IF txn[t].pc = "raised"
       THEN /\ worker' = [worker EXCEPT ![w] =
                    NextTransaction(self, [entry EXCEPT !.caught = txn[t].result])]
            /\ UNCHANGED <<txn, transaction_id_counter>>
       ELSE IF u.error # "none"
       THEN /\ worker' = [worker EXCEPT ![w] =
                    NextTransaction(self, [entry EXCEPT !.caught = u.error])]
            /\ UNCHANGED <<txn, transaction_id_counter>>
       ELSE IF u.result = PyTrue \/ self.i + 1 > RetryLimit \/ u.dupe = DupeTag
       THEN /\ worker' = [worker EXCEPT ![w] = NextTransaction(self, entry)]
            /\ UNCHANGED <<txn, transaction_id_counter>>
       ELSE /\ worker' = [worker EXCEPT ![w].i = @ + 1, ![w].cur = fresh]
            /\ txn' = txn @@ (fresh :> NewTransaction(fresh,
                            txn[self.transactions[self.index]].queries))
            /\ transaction_id_counter' = transaction_id_counter + 1
    /\ last' = [op |-> "after_run", w |-> w, t |-> t]
    /\ UNCHANGED <<lock_manager, universe, table, bufferpool, disk, recency, query, history>>

\* the transactions 0..NumTxns-1 are constructed one after another and
\* handed to the two workers, the first `split` of them to worker 0
InitWorker ==
    /\ lock_manager = NewLockManager
    /\ last = NoCall
    /\ universe = {}
    /\ table = InitTable
    /\ transaction_id_counter = NumTxns
    /\ bufferpool = <<>>
    /\ disk = <<>>
    /\ recency = <<>>
    /\ query = <<>>
    /\ history = <<>>
    /\ \E qs \in [TxnObjs -> WorkerQueryLists] :
          txn = [t \in TxnObjs |-> NewTransaction(t, qs[t])]
    /\ \E split \in 0..NumTxns :
          worker = [w \in Workers |->
                      NewWorker(IF w = 0 THEN [k \in 1..split |-> k - 1]
                                ELSE [k \in 1..(NumTxns - split) |-> split + k - 1])]

\* result, dupe = transaction.run() (or fresh_txn.run()): the steps of run()
\* taken by the worker's thread
WorkerRun(w) == \E t \in RunningOf(w) : Run(t)
WorkerGetLockIds(w) == \E t \in RunningOf(w) : GetLockIds(t)
WorkerAcquireTable(w) == \E t \in RunningOf(w) : AcquireTable(t)
WorkerAcquirePage(w) == \E t \in RunningOf(w) : AcquirePage(t)
WorkerAcquireRecord(w) == \E t \in RunningOf(w) : AcquireRecord(t)
WorkerExecInsert(w) == \E t \in RunningOf(w) : ExecInsert(t)
WorkerExecOther(w) == \E t \in RunningOf(w) : ExecOther(t)
WorkerRelease(w) == \E t \in RunningOf(w) : Release(t)

NextWorker ==
    \E w \in Workers :
        \/ WorkerRun(w)
        \/ WorkerGetLockIds(w)
        \/ WorkerAcquireTable(w)
        \/ WorkerAcquirePage(w)
        \/ WorkerAcquireRecord(w)
        \/ WorkerExecInsert(w)
        \/ WorkerExecOther(w)
        \/ WorkerRelease(w)
        \/ AfterRun(w)

SpecWorker == InitWorker /\ [][NextWorker]_vars

(***************************************************************************)
(* Record (lstore/table.py) and Page (lstore/page.py).  A record is the    *)
(* record of the attributes Record.__init__ sets; a page is its            *)
(* num_records and its data list.  A file is either empty (opened for      *)
(* writing, nothing written) or holds the output of Page.serialize.        *)
(***************************************************************************)

\* Record.__init__: the attributes a record has
Record(base_rid, indirection, rid, time_stamp, schema_encoding, columns) ==
    [base_rid |-> base_rid, indirection |-> indirection, rid |-> rid,
     time_stamp |-> time_stamp, schema_encoding |-> schema_encoding,
     columns |-> columns]

\* Page.__init__
NewPage == [num_records |-> 0, data |-> <<>>]

\* no page: the None that read_from_disk and get_page return
NonePage == [none |-> TRUE]

\* Page.has_capacity
has_capacity(page) == page.num_records < PAGE_RECORD_SIZE

\* Page.write: the page afterwards and the index returned
PageWrite(page, record) ==
    IF has_capacity(page)
    THEN [page |-> [num_records |-> page.num_records + 1,
                    data |-> Append(page.data, record)],
          index |-> page.num_records]
    ELSE [page |-> page, index |-> None]

\* Page.serialize reads record.start_time of every record of the page: it
\* raises AttributeError unless every record has that attribute
Serializable(page) ==
    \A n \in 1..Len(page.data) : "start_time" \in DOMAIN page.data[n]

\* Page.serialize: the bytes, as the dictionary that is packed
serialize(page) ==
    [num_records |-> page.num_records,
     records |-> [n \in 1..Len(page.data) |->
                    [base_rid |-> page.data[n].base_rid,
                     indirection |-> page.data[n].indirection,
                     rid |-> page.data[n].rid,
                     start_time |-> page.data[n].start_time,
                     schema_encoding |-> page.data[n].schema_encoding,
                     columns |-> page.data[n].columns]]]

\* Page.deserialize
deserialize(bytes) ==
    [num_records |-> bytes.num_records,
     data |-> [n \in 1..Len(bytes.records) |->
                Record(bytes.records[n].base_rid, bytes.records[n].indirection,
                       bytes.records[n].rid, bytes.records[n].start_time,
                       bytes.records[n].schema_encoding,
                       bytes.records[n].columns)]]

\* a file open(page_path, 'wb') has created or truncated
EmptyFile == [written |-> FALSE, bytes |-> serialize(NewPage)]

\* a file holding the serialized page
FileOf(page) == [written |-> TRUE, bytes |-> serialize(page)]

\* os.path.exists(page_path)
Exists(files, page_path) == page_path \in DOMAIN files

\* files with the file at page_path replaced
FilePut(files, page_path, file) ==
    [p \in DOMAIN files \cup {page_path} |->
        IF p = page_path THEN file ELSE files[p]]

\* os.remove(page_path)
FileRemove(files, page_path) ==
    [p \in DOMAIN files \ {page_path} |-> files[p]]

(***************************************************************************)
(* BufferPool (lstore/bufferpool.py).  frames is the OrderedDict in its    *)
(* order, least recently used first; a frame is kept with the key it is    *)
(* stored under, its page, its pin count and its dirty bit.  disk maps     *)
(* the page paths that have a file to the file.  recency lists the keys    *)
(* of the frames by their last get_page or add_frame, the earliest first.  *)
(***************************************************************************)

\* self.pool_size; lstore/config.py sets POOL_SIZE = 5, the pool is scaled
\* down here
POOL_SIZE == 2

\* largest pin count a frame is given
MaxPin == 2

\* largest number of records a caller of the pool writes to one page
MaxRecords == 1

PyNone == "None"

\* the page paths the callers use
PagePaths == {"page_0", "page_1", "page_2"}

\* the page that has no file until it is written
UnwrittenPath == "page_2"

\* the record the callers of the pool write
SomeRecord == Record("b0", "b0", "b0", 0, <<0>>, <<1>>)

\* the pages the callers of the pool add
SomePages == {NewPage, PageWrite(NewPage, SomeRecord).page}

\* BufferPool.__init__
NewBufferPool == [pool_size |-> POOL_SIZE, frames |-> <<>>]

\* Frame.__init__
NewFrame(page_path, page) ==
    [page_path |-> page_path, page |-> page, pin_count |-> 0, dirty_bit |-> 0]

\* page_path in self.frames
Resident(self, page_path) ==
    \E n \in 1..Len(self.frames) : self.frames[n].page_path = page_path

\* the position of self.frames[page_path]
FrameIndex(self, page_path) ==
    CHOOSE n \in 1..Len(self.frames) : self.frames[n].page_path = page_path

\* del on the OrderedDict
DelFrame(frames, n) == SubSeq(frames, 1, n - 1) \o SubSeq(frames, n + 1, Len(frames))

Min(S) == CHOOSE n \in S : \A m \in S : n <= m

\* BufferPool._update_lru
_update_lru(self, page_path) ==
    IF Resident(self, page_path)
    THEN LET n == FrameIndex(self, page_path) IN
         [self EXCEPT !.frames = Append(DelFrame(@, n), self.frames[n])]
    ELSE self

\* BufferPool.write_to_disk: the files afterwards and the value returned.
\* The file is opened for writing before the page is serialized, and an
\* exception of serialize is caught
write_to_disk(files, page_path, page) ==
    IF Serializable(page)
    THEN [disk |-> FilePut(files, page_path, FileOf(page)), ret |-> PyTrue]
    ELSE [disk |-> FilePut(files, page_path, EmptyFile), ret |-> PyFalse]

\* BufferPool.read_from_disk: the page returned, None when there is no file
\* or unpacking it raises
read_from_disk(files, page_path) ==
    IF ~Exists(files, page_path) THEN NonePage
    ELSE IF ~files[page_path].written THEN NonePage
    ELSE deserialize(files[page_path].bytes)

Evictable_Any(frame) == TRUE

\* if frame.pin_count == 0, in the scan of evict_page
Evictable(frame) == frame.pin_count = 0

\* BufferPool.evict_page: the pool and the files afterwards, the value
\* returned and the key of the frame removed
evict_page(self, files) ==
    LET frames == self.frames
        clean == {n \in 1..Len(frames) :
                    Evictable(frames[n]) /\ frames[n].dirty_bit = 0}
        dirty == {n \in 1..Len(frames) :
                    Evictable(frames[n]) /\ frames[n].dirty_bit # 0}
    IN
    IF Len(frames) < self.pool_size
    THEN [self |-> self, disk |-> files, ret |-> PyTrue, evicted |-> PyNone]
    ELSE IF clean # {}
    THEN [self |-> [self EXCEPT !.frames = DelFrame(@, Min(clean))],
          disk |-> files, ret |-> PyTrue,
          evicted |-> frames[Min(clean)].page_path]
    ELSE IF dirty # {}
    THEN [self |-> [self EXCEPT !.frames = DelFrame(@, Min(dirty))],
          disk |-> write_to_disk(files, frames[Min(dirty)].page_path,
                                 frames[Min(dirty)].page).disk,
          ret |-> PyTrue,
          evicted |-> frames[Min(dirty)].page_path]
    ELSE [self |-> self, disk |-> files, ret |-> PyFalse, evicted |-> PyNone]

NeedsSpace_Never(self) == FALSE

\* len(self.frames) >= self.pool_size, in add_frame
NeedsSpace(self) == Len(self.frames) >= self.pool_size

\* BufferPool.add_frame; page_data is a page or NonePage.  ret tells
\* whether a frame is returned
add_frame(self, files, page_path, page_data) ==
    LET e == IF NeedsSpace(self) THEN evict_page(self, files)
             ELSE [self |-> self, disk |-> files, ret |-> PyTrue,
                   evicted |-> PyNone]
        page == IF page_data = NonePage THEN read_from_disk(e.disk, page_path)
                ELSE page_data
    IN
    IF Resident(self, page_path)
    THEN [self |-> _update_lru(self, page_path), disk |-> files,
          ret |-> "Frame", evicted |-> PyNone]
    ELSE IF e.ret = PyFalse
    THEN [self |-> e.self, disk |-> e.disk, ret |-> PyNone, evicted |-> e.evicted]
    ELSE IF page = NonePage
    THEN [self |-> e.self, disk |-> e.disk, ret |-> PyNone, evicted |-> e.evicted]
    ELSE [self |-> [e.self EXCEPT !.frames = Append(@, NewFrame(page_path, page))],
          disk |-> e.disk, ret |-> "Frame", evicted |-> e.evicted]

\* Frame.increment_pin_count on self.frames[page_path]
Pin(self, page_path) ==
    [self EXCEPT !.frames[FrameIndex(self, page_path)].pin_count = @ + 1]

\* self.frames[page_path].page
PageOf(self, page_path) == self.frames[FrameIndex(self, page_path)].page

\* BufferPool.get_page; ret tells whether a page is returned, page is the
\* page
get_page(self, files, page_path) ==
    LET a == add_frame(self, files, page_path, NonePage) IN
    IF Resident(self, page_path)
    THEN [self |-> _update_lru(Pin(self, page_path), page_path), disk |-> files,
          ret |-> "Page", evicted |-> PyNone, page |-> PageOf(self, page_path)]
    ELSE IF a.ret = "Frame"
    THEN [self |-> Pin(a.self, page_path), disk |-> a.disk, ret |-> "Page",
          evicted |-> a.evicted, page |-> PageOf(a.self, page_path)]
    ELSE [self |-> a.self, disk |-> a.disk, ret |-> PyNone, evicted |-> a.evicted,
          page |-> NonePage]

\* BufferPool.unpin_page with Frame.decrement_pin_count
unpin_page(self, page_path) ==
    IF Resident(self, page_path)
    THEN [self EXCEPT !.frames[FrameIndex(self, page_path)].pin_count =
                        IF @ > 0 THEN @ - 1 ELSE @]
    ELSE self

\* BufferPool.mark_dirty with Frame.set_dirty_bit
mark_dirty(self, page_path) ==
    IF Resident(self, page_path)
    THEN [self EXCEPT !.frames[FrameIndex(self, page_path)].dirty_bit = 1]
    ELSE self

\* BufferPool.abs_remove_frame
abs_remove_frame(self, page_path) ==
    IF Resident(self, page_path)
    THEN [self |-> [self EXCEPT !.frames = DelFrame(@, FrameIndex(self, page_path))],
          ret |-> PyTrue]
    ELSE [self |-> self, ret |-> PyFalse]

\* BufferPool.rename_frame: self.frames[new_path] = frame keeps the place
\* of a key that is already there and appends a new key; then
\* del self.frames[old_path]
rename_frame(self, old_path, new_path) ==
    IF ~Resident(self, old_path) THEN [self |-> self, ret |-> PyFalse]
    ELSE
        LET frame == [self.frames[FrameIndex(self, old_path)]
                        EXCEPT !.page_path = new_path]
            stored == IF Resident(self, new_path)
                      THEN [self.frames EXCEPT ![FrameIndex(self, new_path)] = frame]
                      ELSE Append(self.frames, frame)
            \* the old key is still at its place unless new_path = old_path
            old_index == FrameIndex(self, old_path)
        IN  [self |-> [self EXCEPT !.frames = DelFrame(stored, old_index)],
             ret |-> PyTrue]

\* a sequence of keys without the key x
Without(keys, x) == SelectSeq(keys, LAMBDA k : k # x)

\* the keys after the frame x was returned by get_page or add_frame
Touched(keys, x) == Append(Without(keys, x), x)

\* the keys after the frame stored under old_path was stored under new_path
Renamed(keys, old_path, new_path) ==
    IF old_path = new_path THEN Without(keys, old_path)
    ELSE [n \in 1..Len(Without(keys, new_path)) |->
            IF Without(keys, new_path)[n] = old_path THEN new_path
            ELSE Without(keys, new_path)[n]]

\* the call made last: its page_path is kept for get_page and add_frame
PoolCall(op, page_path, ret, evicted) ==
    [op |-> op, page_path |-> page_path, ret |-> ret, evicted |-> evicted]

CallGetPage(page_path) ==
    LET r == get_page(bufferpool, disk, page_path) IN
    /\ \A n \in 1..Len(r.self.frames) : r.self.frames[n].pin_count <= MaxPin
    /\ bufferpool' = r.self
    /\ disk' = r.disk
    /\ recency' = IF r.ret = PyNone THEN Without(recency, r.evicted)
                  ELSE Touched(Without(recency, r.evicted), page_path)
    /\ last' = PoolCall("get_page", page_path, r.ret, r.evicted)
    /\ UNCHANGED <<lock_manager, universe, table, txn, transaction_id_counter,
                   worker, query, history>>

CallAddFrame(page_path, page_data) ==
    LET r == add_frame(bufferpool, disk, page_path, page_data) IN
    /\ bufferpool' = r.self
    /\ disk' = r.disk
    /\ recency' = IF r.ret = PyNone THEN Without(recency, r.evicted)
                  ELSE Touched(Without(recency, r.evicted), page_path)
    /\ last' = PoolCall("add_frame", page_path, r.ret, r.evicted)
    /\ UNCHANGED <<lock_manager, universe, table, txn, transaction_id_counter,
                   worker, query, history>>

CallEvictPage ==
    LET r == evict_page(bufferpool, disk) IN
    /\ bufferpool' = r.self
    /\ disk' = r.disk
    /\ recency' = Without(recency, r.evicted)
    /\ last' = PoolCall("evict_page", PyNone, r.ret, r.evicted)
    /\ UNCHANGED <<lock_manager, universe, table, txn, transaction_id_counter,
                   worker, query, history>>

CallUnpinPage(page_path) ==
    /\ bufferpool' = unpin_page(bufferpool, page_path)
    /\ last' = PoolCall("unpin_page", PyNone, PyNone, PyNone)
    /\ UNCHANGED <<lock_manager, universe, table, txn, transaction_id_counter,
                   worker, disk, recency, query, history>>

CallMarkDirty(page_path) ==
    /\ bufferpool' = mark_dirty(bufferpool, page_path)
    /\ last' = PoolCall("mark_dirty", PyNone, PyNone, PyNone)
    /\ UNCHANGED <<lock_manager, universe, table, txn, transaction_id_counter,
                   worker, disk, recency, query, history>>

CallAbsRemoveFrame(page_path) ==
    LET r == abs_remove_frame(bufferpool, page_path) IN
    /\ bufferpool' = r.self
    /\ recency' = Without(recency, page_path)
    /\ last' = PoolCall("abs_remove_frame", PyNone, r.ret, PyNone)
    /\ UNCHANGED <<lock_manager, universe, table, txn, transaction_id_counter,
                   worker, disk, query, history>>

CallRenameFrame(old_path, new_path) ==
    LET r == rename_frame(bufferpool, old_path, new_path) IN
    /\ bufferpool' = r.self
    /\ recency' = IF r.ret = PyTrue THEN Renamed(recency, old_path, new_path)
                  ELSE recency
    /\ last' = PoolCall("rename_frame", PyNone, r.ret, PyNone)
    /\ UNCHANGED <<lock_manager, universe, table, txn, transaction_id_counter,
                   worker, disk, query, history>>

\* a holder of the page of a frame writes a record to it: Page.write
CallPageWrite(page_path) ==
    /\ Resident(bufferpool, page_path)
    /\ PageOf(bufferpool, page_path).num_records < MaxRecords
    /\ bufferpool' = [bufferpool EXCEPT
            !.frames[FrameIndex(bufferpool, page_path)].page =
                PageWrite(@, SomeRecord).page]
    /\ last' = PoolCall("write", PyNone, PyNone, PyNone)
    /\ UNCHANGED <<lock_manager, universe, table, txn, transaction_id_counter,
                   worker, disk, recency, query, history>>

InitPool ==
    /\ lock_manager = NewLockManager
    /\ last = NoCall
    /\ universe = {}
    /\ table = <<>>
    /\ txn = <<>>
    /\ transaction_id_counter = 0
    /\ worker = <<>>
    /\ bufferpool = NewBufferPool
    /\ disk = [p \in PagePaths \ {UnwrittenPath} |-> FileOf(NewPage)]
    /\ recency = <<>>
    /\ query = <<>>
    /\ history = <<>>

\* the calls of callers that add empty pages and write no record
NextPool ==
    \/ \E page_path \in PagePaths : CallGetPage(page_path)
    \/ \E page_path \in PagePaths, page_data \in {NonePage, NewPage} :
            CallAddFrame(page_path, page_data)
    \/ CallEvictPage
    \/ \E page_path \in PagePaths : CallUnpinPage(page_path)
    \/ \E page_path \in PagePaths : CallMarkDirty(page_path)
    \/ \E page_path \in PagePaths : CallAbsRemoveFrame(page_path)
    \/ \E old_path \in PagePaths, new_path \in PagePaths :
            CallRenameFrame(old_path, new_path)

SpecPool == InitPool /\ [][NextPool]_vars

\* the calls of callers that also write records to the pages
NextPages ==
    \/ \E page_path \in PagePaths : CallGetPage(page_path)
    \/ \E page_path \in PagePaths, page_data \in SomePages \cup {NonePage} :
            CallAddFrame(page_path, page_data)
    \/ CallEvictPage
    \/ \E page_path \in PagePaths : CallUnpinPage(page_path)
    \/ \E page_path \in PagePaths : CallMarkDirty(page_path)
    \/ \E page_path \in PagePaths : CallAbsRemoveFrame(page_path)
    \/ \E page_path \in PagePaths : CallPageWrite(page_path)

SpecPages == InitPool /\ [][NextPages]_vars

(***************************************************************************)
(* Table (lstore/table.py), Index (lstore/index.py) and Query              *)
(* (lstore/query.py) on one table with its buffer pool and its files.      *)
(* A page path is the string the code builds, relative to the directory of *)
(* the tables.  An attribute an object does not have is a field its record *)
(* does not have.  A world is the table, the query object, the buffer pool *)
(* of the table and the files: what one call reads and writes.             *)
(***************************************************************************)

\* largest number of calls of Query and Table methods in a run
MaxCalls == 5

\* MERGE_THRESH of lstore/config.py
MERGE_THRESH == PAGE_RECORD_SIZE

\* the page range and page indices of the paths
PathIndices == (0..MaxCalls) \X (0..MaxCalls)

\* f"{self.table.path}/pagerange_{i}/base/page_{j}"
BasePath(pagerange_index, page_index) ==
    "Grades/pagerange_" \o ToString(pagerange_index)
        \o "/base/page_" \o ToString(page_index)

\* os.path.join(tail_dir, f"page_{j}")
TailPath(pagerange_index, page_index) ==
    "Grades/pagerange_" \o ToString(pagerange_index)
        \o "/tail/page_" \o ToString(page_index)

\* Query._parse_page_path
_parse_page_path(path) ==
    CHOOSE ix \in PathIndices :
        path \in {BasePath(ix[1], ix[2]), TailPath(ix[1], ix[2])}

\* sorted(os.listdir(base_dir)): the indices of the base page files of a
\* page range, in order
BaseFiles(files, pagerange_index) ==
    {j \in 0..MaxCalls : Exists(files, BasePath(pagerange_index, j))}

\* sorted(os.listdir(tail_dir))
TailFiles(files, pagerange_index) ==
    {j \in 0..MaxCalls : Exists(files, TailPath(pagerange_index, j))}

\* the elements of a set of numbers in increasing order
Sorted(S) ==
    CHOOSE s \in [1..Cardinality(S) -> S] :
        \A i \in 1..Cardinality(S), j \in 1..Cardinality(S) : i < j => s[i] < s[j]

Max(S) == CHOOSE n \in S : \A m \in S : m <= n

\* the rids: f"b{n}" and f"t{n}"
BaseRid(n) == "b" \o ToString(n)
TailRid(n) == "t" \o ToString(n)

\* time.time(): the model keeps no clock
Now == 0

\* Index.__init__: the primary key cache and the sorted list of the primary
\* key column, the structures the lookups on column 0 read
NewIndex == [primary_key_cache |-> <<>>, sorted_records |-> <<>>]

\* bisect.insort(self.sorted_records, (primary_key, encoded_rid)), for rids
\* that grow with the insertions
Insort(sorted_records, primary_key, rid) ==
    LET left == SelectSeq(sorted_records, LAMBDA e : e[1] <= primary_key)
        right == SelectSeq(sorted_records, LAMBDA e : e[1] > primary_key)
    IN  left \o <<(<<primary_key, rid>>)>> \o right

\* Index.add_record
add_record(self, record) ==
    IF record.columns[1] = None THEN self
    ELSE [self EXCEPT
            !.primary_key_cache = DictPut(@, record.columns[1], record.rid),
            !.sorted_records = Insort(@, record.columns[1], record.rid)]

\* Index.locate(0, value): the rid, or False
locate(self, value) ==
    IF value \in DOMAIN self.primary_key_cache
    THEN self.primary_key_cache[value]
    ELSE PyFalse

\* Index.locate_range(begin, end, 0): the rids of the dictionary returned,
\* in the order of its keys; the later entry of a key replaces the earlier
locate_range(self, begin, end) ==
    LET slice == SelectSeq(self.sorted_records,
                           LAMBDA e : begin <= e[1] /\ e[1] <= end)
        kept == {n \in 1..Len(slice) :
                    \A m \in 1..Len(slice) : m > n => slice[m][1] # slice[n][1]}
    IN  [n \in 1..Cardinality(kept) |-> slice[Sorted(kept)[n]][2]]

\* Table.__init__: the attributes the queries and the merge read.  It sets
\* latest_tail_indices to {} after _init_page_range_storage has set it.
\* merge_thread is the page range of a merge thread that was started and
\* has not run; merge_lock and write_merge_lock are the thread that holds the
\* lock, or None
Table_init ==
    [name |-> "Grades", num_columns |-> 3, pr_unmerged_updates |-> <<0>>,
     page_directory |-> <<>>, index |-> NewIndex, last_path |-> BasePath(0, 0),
     merge_count |-> 0, merge_thread |-> None, latest_tail_indices |-> <<>>,
     merge_lock |-> None, write_merge_lock |-> None]

\* the attributes of the table that the queries read and Table.__init__
\* does not set, as the table description gives them: the two rid counters
\* and the watermark of page range 0
AssignCounters(self) ==
    [name |-> self.name, num_columns |-> self.num_columns,
     pr_unmerged_updates |-> self.pr_unmerged_updates,
     page_directory |-> self.page_directory, index |-> self.index,
     last_path |-> self.last_path, merge_count |-> self.merge_count,
     merge_thread |-> self.merge_thread,
     latest_tail_indices |-> self.latest_tail_indices,
     merge_lock |-> self.merge_lock,
     write_merge_lock |-> self.write_merge_lock,
     current_base_rid |-> 0, current_tail_rid |-> 0,
     page_range_tps |-> [pr \in {0} |-> 0],
     original_per_page_range |-> <<[j \in 1..PAGE_RANGE_SIZE |-> 0]>>]

\* Table._init_page_range_storage: the files of a new table
InitFiles ==
    [p \in {BasePath(0, 0), TailPath(0, 0)} |-> FileOf(NewPage)]

\* Query.__init__
NewQuery == [tail_page_cache |-> <<>>]

\* what a call works on
World(t, q, pool, files) ==
    [table |-> t, query |-> q, bufferpool |-> pool, disk |-> files]

\* what a call returns or raises
RetTrue == [kind |-> PyTrue]
RetFalse == [kind |-> PyFalse]
RetNone == [kind |-> PyNone]
RetRecords(records) == [kind |-> "records", records |-> records]
RetNumber(n) == [kind |-> "number", number |-> n]
Raised(exception) == [kind |-> "raised", exception |-> exception]

\* an entry of Query.tail_page_cache: the path and the page object;
\* attached tells that the object is the page of the frame stored under the
\* path, and page is the object's content when it is not
CacheEntry(path, page, attached) ==
    [path |-> path, page |-> IF attached THEN NewPage ELSE page,
     attached |-> attached]

\* the cached page objects after a call of the pool: an object whose frame
\* is gone lives on in the cache alone
Detach(cache, before, after) ==
    [pr \in DOMAIN cache |->
        IF cache[pr].attached /\ ~Resident(after, cache[pr].path)
        THEN CacheEntry(cache[pr].path, PageOf(before, cache[pr].path), FALSE)
        ELSE cache[pr]]

\* the world after a call of the pool that left the pool r.self and, when it
\* reports them, the files r.disk
AfterPool(w, self, files) ==
    [w EXCEPT !.bufferpool = self, !.disk = files,
              !.query.tail_page_cache = Detach(@, w.bufferpool, self)]

\* the world and the page after get_page returned r
GotPage(w, r) == [w |-> AfterPool(w, r.self, r.disk), page |-> r.page]

\* self.table.bufferpool.get_page(page_path) in a world
WorldGetPage(w, page_path) ==
    GotPage(w, get_page(w.bufferpool, w.disk, page_path))

\* the world after add_frame returned r; added tells that the frame returned
\* holds the page given
AddedFrame(w, page_path, r) ==
    [w |-> AfterPool(w, r.self, r.disk),
     added |-> ~Resident(w.bufferpool, page_path) /\ r.ret = "Frame"]

\* self.table.bufferpool.add_frame(page_path, page) in a world
WorldAddFrame(w, page_path, page) ==
    AddedFrame(w, page_path, add_frame(w.bufferpool, w.disk, page_path, page))

\* the world after abs_remove_frame returned r
RemovedFrame(w, r) == AfterPool(w, r.self, w.disk)

\* self.bufferpool.abs_remove_frame(page_path) in a world
WorldRemoveFrame(w, page_path) ==
    RemovedFrame(w, abs_remove_frame(w.bufferpool, page_path))

\* page.write(record) on the page of the frame stored under page_path
WorldPageWrite(w, page_path, record) ==
    [w EXCEPT !.bufferpool.frames[FrameIndex(w.bufferpool, page_path)].page =
                PageWrite(@, record).page]

\* an assignment to the record at offset of the page of a frame
WorldSetRecord(w, page_path, offset, record) ==
    [w EXCEPT !.bufferpool.frames[FrameIndex(w.bufferpool, page_path)]
                .page.data[offset + 1] = record]

\* open(page_path, 'wb') and f.write(Page().serialize())
WorldWriteEmptyPage(w, page_path) ==
    [w EXCEPT !.disk = FilePut(@, page_path, FileOf(NewPage))]

\* an entry of page_directory: [path, offset] as the queries store it, or
\* the list of locations the merge stores
Location(path, offset) == [merged |-> FALSE, path |-> path, offset |-> offset]
MergedLocations(locations) == [merged |-> TRUE, locations |-> locations]

\* Query._verify_insert_input
_verify_insert_input(columns) ==
    \A i \in 1..Len(columns) : columns[i] \in Int

\* the record insert builds
NewBaseRecord(self, columns) ==
    Record(BaseRid(self.current_base_rid), BaseRid(self.current_base_rid),
           BaseRid(self.current_base_rid), Now,
           [i \in 1..Len(columns) |-> 0], columns)

\* insert, "Update page directory" and the rid counter: the entry is stored
\* under the rid the counter gives now
InsertDone(w, path, offset) ==
    [w |-> [w EXCEPT
              !.table.page_directory =
                  DictPut(@, BaseRid(w.table.current_base_rid),
                          Location(path, offset)),
              !.table.current_base_rid = @ + 1],
     ret |-> RetTrue]

\* insert, the branch of a last page without capacity: a page of the same
\* page range or the first page of a new page range
InsertNewPage(w, record, last_path) ==
    LET last_pagerange_index == _parse_page_path(last_path)[1]
        last_page_index == _parse_page_path(last_path)[2]
        same_range == last_page_index + 1 < PAGE_RANGE_SIZE
        insert_path == IF same_range
                       THEN BasePath(last_pagerange_index, last_page_index + 1)
                       ELSE BasePath(last_pagerange_index + 1, 0)
        w2 == IF same_range
              THEN [w EXCEPT !.table.pr_unmerged_updates = Append(@, 0)]
              ELSE WorldWriteEmptyPage(
                     [w EXCEPT
                        !.table.page_range_tps =
                            DictPut(@, last_pagerange_index + 1, 0),
                        !.table.original_per_page_range =
                            Append(@, [j \in 1..PAGE_RANGE_SIZE |-> 0])],
                     TailPath(last_pagerange_index + 1, 0))
    IN
    IF ~same_range /\ "page_range_tps" \notin DOMAIN w.table
    THEN [w |-> w, ret |-> Raised("AttributeError")]
    ELSE InsertDone(
            WorldAddFrame(
                [WorldWriteEmptyPage(w2, insert_path)
                    EXCEPT !.table.last_path = insert_path],
                insert_path, PageWrite(NewPage, record).page).w,
            insert_path, 0)

\* insert, after get_page(last_path) returned g
InsertRecord(g, record, last_path) ==
    IF g.page = NonePage THEN [w |-> g.w, ret |-> Raised("AttributeError")]
    ELSE IF has_capacity(g.page)
    THEN InsertDone(WorldPageWrite(g.w, last_path, record),
                    last_path, g.page.num_records)
    ELSE InsertNewPage(g.w, record, last_path)

\* insert, self.table.index.add_record(record)
InsertIndex(w, record) ==
    [w EXCEPT !.table.index = add_record(@, record)]

\* insert, from get_page(last_path) to the end, with the record built
InsertPage(w, record) ==
    InsertRecord(WorldGetPage(w, w.table.last_path), record, w.table.last_path)

\* Query.insert: the world afterwards and the value returned
insert(w, columns) ==
    IF ~_verify_insert_input(columns) THEN [w |-> w, ret |-> RetFalse]
    ELSE IF "current_base_rid" \notin DOMAIN w.table
    THEN [w |-> w, ret |-> Raised("AttributeError")]
    ELSE InsertPage(InsertIndex(w, NewBaseRecord(w.table, columns)),
                    NewBaseRecord(w.table, columns))

\* path, offset = self.table.page_directory[rid] and
\* self.table.bufferpool.get_page(path).read_index(offset), after get_page
\* returned g: the world afterwards, the record and its entry, or the
\* exception raised
ReadAt(g, entry) ==
    IF g.page = NonePage THEN [w |-> g.w, error |-> "AttributeError"]
    ELSE IF entry.offset >= Len(g.page.data)
    THEN [w |-> g.w, error |-> "IndexError"]
    ELSE [w |-> g.w, error |-> PyNone, record |-> g.page.data[entry.offset + 1],
          entry |-> entry]

\* path, offset = self.table.page_directory[rid] and
\* self.table.bufferpool.get_page(path).read_index(offset), as update,
\* delete, select_version and _get_merged_lineage do it.  An entry the merge
\* stored does not unpack to a path and an offset
ReadRecord(w, rid) ==
    IF rid \notin DOMAIN w.table.page_directory
    THEN [w |-> w, error |-> "KeyError"]
    ELSE IF w.table.page_directory[rid].merged
    THEN [w |-> w,
          error |-> IF Len(w.table.page_directory[rid].locations) = 2
                    THEN "TypeError" ELSE "ValueError"]
    ELSE ReadAt(WorldGetPage(w, w.table.page_directory[rid].path),
                w.table.page_directory[rid])

\* Table.get_tail_page_location: the world afterwards and the path
get_tail_page_location(w, pagerange_index) ==
    IF ~Exists(w.disk, TailPath(pagerange_index, 0))
    THEN [w |-> WorldAddFrame(WorldWriteEmptyPage(w, TailPath(pagerange_index, 0)),
                              TailPath(pagerange_index, 0), NewPage).w,
          path |-> TailPath(pagerange_index, 0), index |-> 0]
    ELSE [w |-> w,
          path |-> TailPath(pagerange_index, Max(TailFiles(w.disk, pagerange_index))),
          index |-> Max(TailFiles(w.disk, pagerange_index))]

\* create_new_tail_page, from "Create new page path" on
NewTailPage(w, pagerange_index, new_index) ==
    [w |-> [WorldWriteEmptyPage(w, TailPath(pagerange_index, new_index)) EXCEPT
                !.table.latest_tail_indices =
                    DictPut(@, pagerange_index, new_index)],
     path |-> TailPath(pagerange_index, new_index)]

\* create_new_tail_page, after get_tail_page_location returned l
NewTailPageAfter(l, pagerange_index) ==
    NewTailPage(l.w, pagerange_index, l.index + 1)

\* Table.create_new_tail_page: the world afterwards and the path
create_new_tail_page(w, pagerange_index) ==
    IF pagerange_index \in DOMAIN w.table.latest_tail_indices
    THEN NewTailPage(w, pagerange_index,
                     w.table.latest_tail_indices[pagerange_index] + 1)
    ELSE NewTailPageAfter(get_tail_page_location(w, pagerange_index),
                          pagerange_index)

\* the page object of an entry of tail_page_cache
CachedPage(w, pagerange_index) ==
    LET entry == w.query.tail_page_cache[pagerange_index] IN
    IF entry.attached THEN PageOf(w.bufferpool, entry.path) ELSE entry.page

\* "Get or create tail page using cache", after get_page returned g: the
\* world with the page range in the cache
CacheTailPage(g, path, pagerange_index) ==
    [g.w EXCEPT !.query.tail_page_cache =
        DictPut(@, pagerange_index,
                CacheEntry(path, g.page, g.page # NonePage))]

\* "Get or create tail page using cache", after get_tail_page_location
\* returned l
LocateTailPage(l, pagerange_index) ==
    CacheTailPage(WorldGetPage(l.w, l.path), l.path, pagerange_index)

\* "Handle page capacity", after add_frame returned a
AppendAdded(a, path, pagerange_index, record) ==
    [w |-> [a.w EXCEPT !.query.tail_page_cache =
                DictPut(@, pagerange_index,
                        CacheEntry(path, PageWrite(NewPage, record).page,
                                   a.added))],
     error |-> PyNone, location |-> Location(path, 0)]

\* "Handle page capacity", after create_new_tail_page returned c
AppendNewPage(c, pagerange_index, record) ==
    AppendAdded(WorldAddFrame(c.w, c.path, PageWrite(NewPage, record).page),
                c.path, pagerange_index, record)

\* "Handle page capacity" with the page range in the cache
AppendCached(w, pagerange_index, record) ==
    LET entry == w.query.tail_page_cache[pagerange_index]
        page == CachedPage(w, pagerange_index)
    IN  IF page = NonePage THEN [w |-> w, error |-> "AttributeError"]
        ELSE IF has_capacity(page)
        THEN [w |-> IF entry.attached
                    THEN WorldPageWrite(w, entry.path, record)
                    ELSE [w EXCEPT
                            !.query.tail_page_cache[pagerange_index].page =
                                PageWrite(@, record).page],
              error |-> PyNone,
              location |-> Location(entry.path, page.num_records)]
        ELSE AppendNewPage(create_new_tail_page(w, pagerange_index),
                           pagerange_index, record)

\* the block of update and delete that appends a record to the tail page of
\* a page range, "Get or create tail page using cache" and "Handle page
\* capacity": the world afterwards and the location of the record, or the
\* exception raised
AppendTail(w, pagerange_index, record) ==
    IF pagerange_index \in DOMAIN w.query.tail_page_cache
    THEN AppendCached(w, pagerange_index, record)
    ELSE AppendCached(
            LocateTailPage(get_tail_page_location(w, pagerange_index),
                           pagerange_index),
            pagerange_index, record)

NoLiveThread_Always(self) == TRUE

\* self.merge_thread is None or not self.merge_thread.is_alive()
NoLiveThread(self) == self.merge_thread = None

\* Table.merge: a merge thread is started unless one is alive
merge(self, pagerange_index) ==
    IF NoLiveThread(self)
    THEN [self EXCEPT !.merge_thread = pagerange_index]
    ELSE self

\* "Merge logic" of update and "Handle merge threshold" of delete: the world
\* afterwards and the value returned
CountUpdate(w, pagerange_index) ==
    IF pagerange_index + 1 > Len(w.table.pr_unmerged_updates)
    THEN [w |-> w, ret |-> Raised("IndexError")]
    ELSE IF w.table.pr_unmerged_updates[pagerange_index + 1] + 1 >= MERGE_THRESH
    THEN [w |-> [w EXCEPT
                    !.table.pr_unmerged_updates[pagerange_index + 1] = @ + 1,
                    !.table.merge_thread =
                        IF @ = None THEN pagerange_index ELSE @],
          ret |-> RetTrue]
    ELSE [w |-> [w EXCEPT
                    !.table.pr_unmerged_updates[pagerange_index + 1] = @ + 1],
          ret |-> RetTrue]

\* update, "Update page directory and indices", after the new record was
\* appended with result n
UpdateCount(n, rid, pagerange_index) ==
    IF n.error # PyNone THEN [w |-> n.w, ret |-> Raised(n.error)]
    ELSE CountUpdate(
            [n.w EXCEPT
                !.table.page_directory = DictPut(@, rid, n.location),
                !.table.current_tail_rid = @ + 1],
            pagerange_index)

\* update, "Prepare new record" and "Update base record pointers"
UpdateTail(w, base_record, base_entry, last_tail_record, columns) ==
    LET new_schema == [i \in 1..Len(columns) |->
                        IF columns[i] # None THEN 1
                        ELSE last_tail_record.schema_encoding[i]]
        new_cols == [i \in 1..Len(columns) |->
                        IF columns[i] # None THEN columns[i]
                        ELSE last_tail_record.columns[i]]
        rid == TailRid(w.table.current_tail_rid)
        record == Record(base_record.rid, last_tail_record.rid, rid, Now,
                         new_schema, new_cols)
    IN  UpdateCount(
            AppendTail(
                WorldSetRecord(w, base_entry.path, base_entry.offset,
                    [base_record EXCEPT !.schema_encoding = new_schema,
                                        !.indirection = rid]),
                _parse_page_path(base_entry.path)[1], record),
            rid, _parse_page_path(base_entry.path)[1])

\* update, the copy of the base record the first update appends
OriginalCopy(base_record, current_tail_rid, columns) ==
    Record(base_record.rid, base_record.rid, TailRid(current_tail_rid), Now,
           [i \in 1..Len(columns) |-> IF columns[i] # None THEN 1 ELSE 0],
           base_record.columns)

\* update, is_first_update, after the copy was appended with result o
UpdateFirst(o, base_record, base_entry, original_copy, columns) ==
    IF o.error # PyNone THEN [w |-> o.w, ret |-> Raised(o.error)]
    ELSE UpdateTail(
            [o.w EXCEPT !.table.page_directory =
                DictPut(@, original_copy.rid, o.location)],
            base_record, base_entry, original_copy, columns)

\* update, not is_first_update, after the last tail record was read with
\* result t
UpdateLater(t, base_record, base_entry, columns) ==
    IF t.error # PyNone THEN [w |-> t.w, ret |-> Raised(t.error)]
    ELSE IF "current_tail_rid" \notin DOMAIN t.w.table
    THEN [w |-> t.w, ret |-> Raised("AttributeError")]
    ELSE UpdateTail(t.w, base_record, base_entry, t.record, columns)

\* update, after the base record was read with result b
UpdateBase(b, columns) ==
    IF b.error # PyNone THEN [w |-> b.w, ret |-> Raised(b.error)]
    ELSE IF b.record.indirection # b.record.rid
    THEN UpdateLater(ReadRecord(b.w, b.record.indirection), b.record, b.entry,
                     columns)
    ELSE IF "current_tail_rid" \notin DOMAIN b.w.table
    THEN [w |-> b.w, ret |-> Raised("AttributeError")]
    ELSE UpdateFirst(
            AppendTail([b.w EXCEPT !.table.current_tail_rid = @ + 1],
                       _parse_page_path(b.entry.path)[1],
                       OriginalCopy(b.record, b.w.table.current_tail_rid,
                                    columns)),
            b.record, b.entry,
            OriginalCopy(b.record, b.w.table.current_tail_rid, columns),
            columns)

\* Query.update: the world afterwards and the value returned
update(w, primary_key, columns) ==
    IF locate(w.table.index, primary_key) = PyFalse
    THEN [w |-> w, ret |-> RetFalse]
    ELSE UpdateBase(ReadRecord(w, locate(w.table.index, primary_key)), columns)

\* delete, "Update metadata", after the deletion marker was appended with
\* result n
DeleteCount(n, record, pagerange_index) ==
    IF n.error # PyNone THEN [w |-> n.w, ret |-> Raised(n.error)]
    ELSE CountUpdate(
            [n.w EXCEPT
                !.table.page_directory = DictPut(@, record.rid, n.location),
                !.table.index = add_record(@, record),
                !.table.current_tail_rid = @ + 1],
            pagerange_index)

\* delete, "Create deletion marker" and "Update previous tail's pointer",
\* after the last tail record was read with result t
DeleteTail(t, base_record, base_entry) ==
    IF t.error # PyNone THEN [w |-> t.w, ret |-> Raised(t.error)]
    ELSE IF "current_tail_rid" \notin DOMAIN t.w.table
    THEN [w |-> t.w, ret |-> Raised("AttributeError")]
    ELSE
    LET record == Record(base_record.rid, t.record.rid,
                         TailRid(t.w.table.current_tail_rid), Now,
                         [i \in 1..Len(base_record.schema_encoding) |-> 0],
                         [i \in 1..Len(base_record.columns) |-> None])
    IN  DeleteCount(
            AppendTail(
                WorldSetRecord(t.w, t.entry.path, t.entry.offset,
                    [t.record EXCEPT !.indirection = record.rid]),
                _parse_page_path(base_entry.path)[1], record),
            record, _parse_page_path(base_entry.path)[1])

\* delete, after the base record was read with result b
DeleteBase(b) ==
    IF b.error # PyNone THEN [w |-> b.w, ret |-> Raised(b.error)]
    ELSE DeleteTail(ReadRecord(b.w, b.record.indirection), b.record, b.entry)

\* Query.delete: the world afterwards and the value returned
delete(w, primary_key) ==
    IF locate(w.table.index, primary_key) = PyFalse
    THEN [w |-> w, ret |-> RetFalse]
    ELSE DeleteBase(ReadRecord(w, locate(w.table.index, primary_key)))

\* [element for element, bit in zip(columns, projected_columns_index)
\*  if bit == 1]
Project(columns, projected_columns_index) ==
    LET n == IF Len(columns) < Len(projected_columns_index) THEN Len(columns)
             ELSE Len(projected_columns_index)
        kept == {i \in 1..n : projected_columns_index[i] = 1}
    IN  [k \in 1..Cardinality(kept) |-> columns[Sorted(kept)[k]]]

\* no record: the None of _get_merged_lineage
NoneRecord == [none |-> TRUE]

\* _get_merged_lineage, after the last tail record was read with result t;
\* building the record reads last_tail_record.start_time
LineageTail(t, base_record, projected_columns_index) ==
    IF t.error # PyNone THEN [w |-> t.w, record |-> NoneRecord]
    ELSE IF "start_time" \notin DOMAIN t.record
    THEN [w |-> t.w, record |-> NoneRecord]
    ELSE [w |-> t.w,
          record |-> Record(base_record.rid, t.record.rid,
                            base_record.indirection, t.record.start_time,
                            t.record.schema_encoding,
                            Project(t.record.columns, projected_columns_index))]

\* _get_merged_lineage, after the base record was read with result b
LineageBase(b, projected_columns_index) ==
    IF b.error # PyNone THEN [w |-> b.w, record |-> NoneRecord]
    ELSE LineageTail(ReadRecord(b.w, b.record.indirection), b.record,
                     projected_columns_index)

\* Query._get_merged_lineage: the world afterwards and the record returned,
\* None when a check fails or an exception is caught
_get_merged_lineage(w, base_rid, projected_columns_index) ==
    LineageBase(ReadRecord(w, base_rid), projected_columns_index)

\* select, after _get_merged_lineage returned m
SelectResult(m) ==
    IF m.record = NoneRecord THEN [w |-> m.w, ret |-> RetFalse]
    ELSE [w |-> m.w, ret |-> RetRecords(<<m.record>>)]

\* Query.select(search_key, 0, projected_columns_index): the world
\* afterwards and the value returned
select(w, search_key, projected_columns_index) ==
    IF locate(w.table.index, search_key) = PyFalse
    THEN [w |-> w, ret |-> RetFalse]
    ELSE SelectResult(
            _get_merged_lineage(w, locate(w.table.index, search_key),
                                projected_columns_index))

\* the loop of select_version: steps iterations from temp_rid; the world
\* afterwards and temp_record, or the exception raised
RECURSIVE Walk(_, _, _)

\* an iteration of the loop of select_version, after temp_record was read
\* with result r
WalkOn(r, steps) ==
    IF r.error # PyNone THEN r
    ELSE IF steps = 1 \/ r.record.indirection = r.record.base_rid THEN r
    ELSE Walk(r.w, r.record.indirection, steps - 1)

Walk(w, temp_rid, steps) == WalkOn(ReadRecord(w, temp_rid), steps)

\* abs(relative_version - 2)
Abs(n) == IF n < 0 THEN 0 - n ELSE n

\* select_version, after the loop ended with result r.  The record appended
\* to the results is temp_record, not the copy with the projected columns
VersionResult(r) ==
    IF r.error # PyNone THEN [w |-> r.w, ret |-> Raised(r.error)]
    ELSE [w |-> r.w, ret |-> RetRecords(<<r.record>>)]

\* Query.select_version(search_key, 0, projected_columns_index,
\* relative_version), for relative_version <= 0: the world afterwards and
\* the value returned
select_version(w, search_key, projected_columns_index, relative_version) ==
    IF locate(w.table.index, search_key) = PyFalse
    THEN [w |-> w, ret |-> RetNone]
    ELSE VersionResult(Walk(w, locate(w.table.index, search_key),
                            Abs(relative_version - 2)))

\* the loop of sum over the rids: the world afterwards and range_sum
RECURSIVE SumOver(_, _, _, _)

\* an iteration of the loop of sum, after _get_merged_lineage returned m
SumNext(m, rids, aggregate_column_index, range_sum) ==
    SumOver(m.w, Tail(rids), aggregate_column_index,
            IF m.record # NoneRecord
               /\ m.record.columns[aggregate_column_index + 1] # None
            THEN range_sum + m.record.columns[aggregate_column_index + 1]
            ELSE range_sum)

SumOver(w, rids, aggregate_column_index, range_sum) ==
    IF rids = <<>> THEN [w |-> w, range_sum |-> range_sum]
    ELSE SumNext(_get_merged_lineage(w, Head(rids),
                                     [i \in 1..w.table.num_columns |-> 1]),
                 rids, aggregate_column_index, range_sum)

\* sum, after the loop ended with result s
SumResult(s) == [w |-> s.w, ret |-> RetNumber(s.range_sum)]

\* Query.sum: the world afterwards and the value returned
sum(w, start_range, end_range, aggregate_column_index) ==
    IF locate_range(w.table.index, start_range, end_range) = <<>>
    THEN [w |-> w, ret |-> RetFalse]
    ELSE SumResult(SumOver(w, locate_range(w.table.index, start_range, end_range),
                           aggregate_column_index, 0))

\* the inner loop of sum_version: steps iterations from temp_rid, with no
\* test of the rid reached; the world afterwards and temp_record, or the
\* exception raised
RECURSIVE WalkAll(_, _, _)

\* an iteration of the inner loop of sum_version, after temp_record was read
\* with result r
WalkAllOn(r, steps) ==
    IF r.error # PyNone THEN r
    ELSE IF steps = 1 THEN r
    ELSE WalkAll(r.w, r.record.indirection, steps - 1)

WalkAll(w, temp_rid, steps) == WalkAllOn(ReadRecord(w, temp_rid), steps)

\* the loop of sum_version over the rids: the world afterwards and
\* range_sum, or the exception raised
RECURSIVE SumVersionOver(_, _, _, _, _)

\* range_sum += temp_record.columns[aggregate_column_index], after the
\* inner loop ended with result r
SumVersionNext(r, rids, aggregate_column_index, steps, range_sum) ==
    IF r.error # PyNone THEN [w |-> r.w, error |-> r.error]
    ELSE IF r.record.columns[aggregate_column_index + 1] = None
    THEN [w |-> r.w, error |-> "TypeError"]
    ELSE SumVersionOver(r.w, Tail(rids), aggregate_column_index, steps,
                        range_sum + r.record.columns[aggregate_column_index + 1])

SumVersionOver(w, rids, aggregate_column_index, steps, range_sum) ==
    IF rids = <<>> THEN [w |-> w, error |-> PyNone, range_sum |-> range_sum]
    ELSE SumVersionNext(WalkAll(w, Head(rids), steps), rids,
                        aggregate_column_index, steps, range_sum)

\* sum_version, after the loop ended with result s
SumVersionResult(s) ==
    IF s.error # PyNone THEN [w |-> s.w, ret |-> Raised(s.error)]
    ELSE [w |-> s.w, ret |-> RetNumber(s.range_sum)]

\* Query.sum_version, for relative_version <= 0: the world afterwards and
\* the value returned
sum_version(w, start_range, end_range, aggregate_column_index, relative_version) ==
    IF locate_range(w.table.index, start_range, end_range) = <<>>
    THEN [w |-> w, ret |-> RetFalse]
    ELSE SumVersionResult(
            SumVersionOver(w, locate_range(w.table.index, start_range, end_range),
                           aggregate_column_index, Abs(relative_version - 2), 0))

\* increment, after select returned s: False[0] raises TypeError, and so
\* does r[column] on the Record that is the first element of a list
IncrementSelected(s) == [w |-> s.w, ret |-> Raised("TypeError")]

\* Query.increment: the world afterwards and the value returned
increment(w, key, column) ==
    IncrementSelected(select(w, key, [i \in 1..w.table.num_columns |-> 1]))

\* the paths of the files of a directory, sorted
BaseFilePaths(files, pagerange_index) ==
    [n \in 1..Cardinality(BaseFiles(files, pagerange_index)) |->
        BasePath(pagerange_index, Sorted(BaseFiles(files, pagerange_index))[n])]

TailFilePaths(files, pagerange_index) ==
    [n \in 1..Cardinality(TailFiles(files, pagerange_index)) |->
        TailPath(pagerange_index, Sorted(TailFiles(files, pagerange_index))[n])]

\* "Flush base pages to disk before archiving" and the same for the tail
\* pages: each page the pool returns is written with open(path, 'wb') and
\* f.write(page.serialize()); the world afterwards and the exception raised
RECURSIVE Flush(_, _)

\* an iteration of the flush, after get_page returned g
FlushPage(g, paths) ==
    IF g.page = NonePage THEN Flush(g.w, Tail(paths))
    ELSE IF ~Serializable(g.page)
    THEN [w |-> [g.w EXCEPT !.disk = FilePut(@, Head(paths), EmptyFile)],
          error |-> "AttributeError"]
    ELSE Flush([g.w EXCEPT !.disk = FilePut(@, Head(paths), FileOf(g.page))],
               Tail(paths))

Flush(w, paths) ==
    IF paths = <<>> THEN [w |-> w, error |-> PyNone]
    ELSE FlushPage(WorldGetPage(w, Head(paths)), paths)

\* the path of the copy of a file in the archive of the current merge count
ArchivePath(self, path) ==
    "_archives/Grades_archived/merge_" \o ToString(self.merge_count) \o "/" \o path

\* Table.archive_table with copy_directory: every file of the table is
\* copied
archive_table(w) ==
    LET table_files ==
            {p \in DOMAIN w.disk :
                \E ix \in PathIndices :
                    p \in {BasePath(ix[1], ix[2]), TailPath(ix[1], ix[2])}}
        copies == {ArchivePath(w.table, p) : p \in table_files}
    IN  [w EXCEPT !.disk =
            [q \in DOMAIN w.disk \cup copies |->
                IF q \in copies
                THEN w.disk[CHOOSE p \in table_files : ArchivePath(w.table, p) = q]
                ELSE w.disk[q]]]

\* "Read all base pages and store records in memory" and the same for the
\* tail pages: the world afterwards and the records of the pages the pool
\* returns, in order
RECURSIVE ReadAll(_, _, _)

\* an iteration of the reading, after get_page returned g
ReadPage(g, paths, records) ==
    ReadAll(g.w, Tail(paths),
            IF g.page = NonePage THEN records ELSE records \o g.page.data)

ReadAll(w, paths, records) ==
    IF paths = <<>> THEN [w |-> w, records |-> records]
    ELSE ReadPage(WorldGetPage(w, Head(paths)), paths, records)

\* abs_remove_frame and os.remove for every path
RECURSIVE RemoveAll(_, _)
RemoveAll(w, paths) ==
    IF paths = <<>> THEN w
    ELSE RemoveAll([WorldRemoveFrame(w, Head(paths))
                        EXCEPT !.disk = FileRemove(@, Head(paths))],
                   Tail(paths))

\* "combine tail records into new base records": the base record after the
\* tail records of its base_rid were applied in order
Combine(base_record, all_tail_records) ==
    LET mine == SelectSeq(all_tail_records,
                          LAMBDA r : r.base_rid = base_record.base_rid)
        tail_record == mine[Len(mine)]
    IN  IF mine = <<>> THEN base_record
        ELSE [base_record EXCEPT
                !.columns = tail_record.columns,
                !.schema_encoding = [i \in 1..Len(tail_record.columns) |-> 0],
                !.indirection = tail_record.base_rid,
                !.time_stamp = tail_record.time_stamp]

\* _merge, "Write merged records back to base pages" and what follows, in
\* the world w after the frames and the files of the page range were
\* removed.  Serializing a page that holds records raises once the first
\* page is written; the entries put into the new page directory by then
\* are those of the records of that page
MergeWrite(w, all_base_records, page_range_index) ==
    LET placed == IF Len(all_base_records) < PAGE_RECORD_SIZE
                  THEN Len(all_base_records) ELSE PAGE_RECORD_SIZE
    IN
    IF all_base_records # <<>>
    THEN [w |-> [w EXCEPT
                    !.table.page_directory =
                        [rid \in {all_base_records[n].base_rid : n \in 1..placed} |->
                            MergedLocations(<<Location(
                                BasePath(page_range_index, 0),
                                (CHOOSE n \in 1..placed :
                                    all_base_records[n].base_rid = rid) - 1)>>)],
                    !.disk = FilePut(@, BasePath(page_range_index, 0), EmptyFile)],
          error |-> "AttributeError"]
    ELSE IF page_range_index + 1 > Len(w.table.pr_unmerged_updates)
    THEN [w |-> [WorldWriteEmptyPage(w, TailPath(page_range_index, 0))
                    EXCEPT !.table.index = NewIndex],
          error |-> "IndexError"]
    ELSE [w |-> [WorldWriteEmptyPage(w, TailPath(page_range_index, 0))
                    EXCEPT !.table.index = NewIndex,
                           !.table.pr_unmerged_updates[page_range_index + 1] = 0],
          error |-> PyNone]

\* _merge, "combine tail records into new base records" and "Clear old
\* pages", after the tail pages were read with result rt
MergeCombine(rt, base_records, base_file_paths, tail_file_paths,
             page_range_index) ==
    MergeWrite(
        [RemoveAll(RemoveAll(rt.w, base_file_paths), tail_file_paths)
            EXCEPT !.table.page_directory = <<>>],
        [n \in 1..Len(base_records) |-> Combine(base_records[n], rt.records)],
        page_range_index)

\* _merge, after the base pages were read with result rb
MergeReadTail(rb, base_file_paths, tail_file_paths, page_range_index) ==
    MergeCombine(ReadAll(rb.w, tail_file_paths, <<>>), rb.records,
                 base_file_paths, tail_file_paths, page_range_index)

\* _merge, in the world w after archive_table
MergeReadBase(w, page_range_index) ==
    MergeReadTail(ReadAll(w, BaseFilePaths(w.disk, page_range_index), <<>>),
                  BaseFilePaths(w.disk, page_range_index),
                  TailFilePaths(w.disk, page_range_index), page_range_index)

\* _merge, after the tail pages were flushed with result ft
MergeArchive(ft, page_range_index) ==
    IF ft.error # PyNone THEN ft
    ELSE MergeReadBase(archive_table(ft.w), page_range_index)

\* _merge, after the base pages were flushed with result fb
MergeFlushTail(fb, page_range_index) ==
    IF fb.error # PyNone THEN fb
    ELSE MergeArchive(Flush(fb.w, TailFilePaths(fb.w.disk, page_range_index)),
                      page_range_index)

\* Table._merge: the world afterwards and the exception it ends with
_merge(w, page_range_index) ==
    MergeFlushTail(Flush(w, BaseFilePaths(w.disk, page_range_index)),
                   page_range_index)

\* os.path.join(table.path, f"{table_name}.pickle") and the path of the
\* pickle of the index
TablePicklePath == "Grades/Grades.pickle"
IndexPicklePath == "Grades/Grades_index.pickle"

\* Database.close, "Run final merges": the page ranges whose counter is
\* positive
Unmerged(self) ==
    {pr \in 0..(Len(self.pr_unmerged_updates) - 1) :
        self.pr_unmerged_updates[pr + 1] > 0}

\* Database.close, "Run final merges" and "Wait for any ongoing background
\* merge threads": Table.merge is called for every page range whose counter
\* is positive and the counter is reset; the thread that is alive, or else
\* the one the first call starts, is joined, and the later calls find it
\* alive
CloseMerges(w) ==
    IF w.table.merge_thread = None /\ Unmerged(w.table) = {} THEN w
    ELSE [_merge([w EXCEPT !.table.pr_unmerged_updates =
                                [n \in 1..Len(@) |-> 0]],
                 IF w.table.merge_thread # None THEN w.table.merge_thread
                 ELSE Min(Unmerged(w.table))).w
            EXCEPT !.table.merge_thread = None]

\* Database.close, "Flush buffer pool": write_to_disk for the frames whose
\* dirty bit is set
RECURSIVE CloseFlush(_, _)
CloseFlush(files, frames) ==
    IF frames = <<>> THEN files
    ELSE CloseFlush(
            IF Head(frames).dirty_bit # 0
            THEN write_to_disk(files, Head(frames).page_path,
                               Head(frames).page).disk
            ELSE files,
            Tail(frames))

\* Database.close, "Save the index first" and "Save table to pickle file",
\* in the world m the merges have left; the table gets a new buffer pool
ClosePickle(m) ==
    AfterPool(m, NewBufferPool,
              FilePut(
                FilePut(CloseFlush(m.disk, m.bufferpool.frames),
                        IndexPicklePath,
                        [written |-> TRUE, bytes |-> m.table.index]),
                TablePicklePath,
                [written |-> TRUE, bytes |-> m.table]))

\* Database.close: the world afterwards
close(w) == ClosePickle(CloseMerges(w))

\* Database._scan_directory_for_tables on the table unpickled: the locks
\* and the thread are set anew and the index is restored from its pickle
Unpickled(files) ==
    [files[TablePicklePath].bytes EXCEPT
        !.merge_thread = None,
        !.index = [primary_key_cache |->
                        files[IndexPicklePath].bytes.primary_key_cache,
                   sorted_records |->
                        files[IndexPicklePath].bytes.sorted_records]]

\* Database.open of a new Database object, with Query(table) on the table
\* loaded.  _rebuild_index_from_pages runs when the index is empty and the
\* page directory is not: it unpacks locations[0], which is the path of an
\* entry [path, offset], the ValueError is caught and the table is replaced
\* by a new Table, whose constructor writes the two empty pages
open(w) ==
    IF Unpickled(w.disk).index.sorted_records = <<>>
       /\ DOMAIN Unpickled(w.disk).page_directory # {}
    THEN [table |-> Table_init, query |-> NewQuery, bufferpool |-> NewBufferPool,
          disk |-> FilePut(FilePut(w.disk, BasePath(0, 0), FileOf(NewPage)),
                           TailPath(0, 0), FileOf(NewPage))]
    ELSE [table |-> Unpickled(w.disk), query |-> NewQuery,
          bufferpool |-> NewBufferPool, disk |-> w.disk]

\* the calls made on the table
InsertInputs == {<<1, 10, 20>>, <<2, 30, 40>>}
UpdateInputs == {<<1, <<None, 11, None>> >>, <<1, <<None, None, 21>> >>,
                 <<2, <<None, 31, None>> >>}
DeleteInputs == {1}
SelectInputs == {<<1, <<1, 1, 1>> >>, <<2, <<1, 1, 1>> >>}
VersionInputs == {<<1, <<1, 0, 1>>, 0>>, <<1, <<1, 0, 1>>, -1>>,
                  <<1, <<1, 0, 1>>, -2>>}
SumInputs == {<<1, 2, 1>>, <<5, 6, 1>>}
SumVersionInputs == {<<1, 2, 1, 0>>, <<1, 2, 1, -3>>, <<5, 6, 1, 0>>}
IncrementInputs == {<<1, 1>>, <<2, 1>>}

\* the world of the variables
TheWorld == World(table, query, bufferpool, disk)

QueryCall(op, args, ret) == [op |-> op, args |-> args, ret |-> ret]

\* what the calls that returned True have made of the table, by primary
\* key: the column values of the record after the insert and after each
\* update, the columns the updates set, the keys deleted, the keys inserted
\* more than once, the number of runs of the merge thread, and the writes
\* made while the merge thread was alive, as pairs of the key and the rid of
\* the tail record appended
NoHistory ==
    [count |-> 0, versions |-> <<>>, set |-> <<>>, deleted |-> {}, twice |-> {},
     merges |-> 0, during |-> {}]

\* an update or delete returned True while the merge thread was alive
WroteDuring(h, r, op, args) ==
    IF op \in {"update", "delete"} /\ r.ret = RetTrue /\ table.merge_thread # None
    THEN [h EXCEPT !.during =
            @ \cup {<<args[1], TailRid(r.w.table.current_tail_rid - 1)>>}]
    ELSE h

\* the column values after an update of columns
Overlay(old, columns) ==
    [i \in 1..Len(old) |-> IF columns[i] # None THEN columns[i] ELSE old[i]]

Inserted(h, columns) ==
    IF columns[1] \in DOMAIN h.versions
    THEN [h EXCEPT !.twice = @ \cup {columns[1]}]
    ELSE [h EXCEPT !.versions = DictPut(@, columns[1], <<columns>>),
                   !.set = DictPut(@, columns[1], {})]

Updated(h, primary_key, columns) ==
    IF primary_key \in DOMAIN h.versions
    THEN [h EXCEPT !.versions[primary_key] =
                        Append(@, Overlay(@[Len(@)], columns)),
                   !.set[primary_key] =
                        @ \cup {i \in 1..Len(columns) : columns[i] # None}]
    ELSE h

Deleted(h, primary_key) == [h EXCEPT !.deleted = @ \cup {primary_key}]

\* a call ends: the world it leaves, the call and the history
Returns(r, op, args, h) ==
    /\ table' = r.w.table
    /\ query' = r.w.query
    /\ bufferpool' = r.w.bufferpool
    /\ disk' = r.w.disk
    /\ last' = QueryCall(op, args, r.ret)
    /\ history' = [WroteDuring(IF r.ret = RetTrue THEN h ELSE history,
                                r, op, args)
                        EXCEPT !.count = @ + 1]
    /\ UNCHANGED <<lock_manager, universe, txn, transaction_id_counter, worker,
                   recency>>

CallInsert(columns) ==
    /\ history.count < MaxCalls
    /\ Returns(insert(TheWorld, columns), "insert", <<columns>>,
               Inserted(history, columns))

CallUpdate(primary_key, columns) ==
    /\ history.count < MaxCalls
    /\ Returns(update(TheWorld, primary_key, columns), "update",
               <<primary_key, columns>>, Updated(history, primary_key, columns))

CallDelete(primary_key) ==
    /\ history.count < MaxCalls
    /\ Returns(delete(TheWorld, primary_key), "delete", <<primary_key>>,
               Deleted(history, primary_key))

CallSelect(search_key, projected_columns_index) ==
    /\ history.count < MaxCalls
    /\ Returns(select(TheWorld, search_key, projected_columns_index),
               "select", <<search_key, projected_columns_index>>, history)

CallSelectVersion(search_key, projected_columns_index, relative_version) ==
    /\ history.count < MaxCalls
    /\ Returns(select_version(TheWorld, search_key, projected_columns_index,
                              relative_version),
               "select_version",
               <<search_key, projected_columns_index, relative_version>>,
               history)

CallSum(start_range, end_range, aggregate_column_index) ==
    /\ history.count < MaxCalls
    /\ Returns(sum(TheWorld, start_range, end_range, aggregate_column_index),
               "sum", <<start_range, end_range, aggregate_column_index>>,
               history)

CallSumVersion(start_range, end_range, aggregate_column_index, relative_version) ==
    /\ history.count < MaxCalls
    /\ Returns(sum_version(TheWorld, start_range, end_range,
                           aggregate_column_index, relative_version),
               "sum_version",
               <<start_range, end_range, aggregate_column_index,
                 relative_version>>,
               history)

CallIncrement(key, column) ==
    /\ history.count < MaxCalls
    /\ Returns(increment(TheWorld, key, column), "increment", <<key, column>>,
               history)

\* Table.merge(0), as Database.close calls it
CallMerge ==
    /\ history.count < MaxCalls
    /\ Returns([w |-> [TheWorld EXCEPT !.table = merge(@, 0)],
                ret |-> IF NoLiveThread(table) THEN RetNone ELSE RetFalse],
               "merge", <<0>>, history)

\* Database.close
CallClose ==
    /\ history.count < MaxCalls
    /\ Returns([w |-> close(TheWorld), ret |-> RetNone], "close", <<>>, history)

\* Database.open on the directory of a database that was closed
CallOpen ==
    /\ history.count < MaxCalls
    /\ Exists(disk, TablePicklePath)
    /\ Returns([w |-> open(TheWorld), ret |-> RetNone], "open", <<>>, history)

\* the merge thread ends: _merge returned r
MergeEnds(r, page_range_index) ==
    /\ table' = [r.w.table EXCEPT !.merge_thread = None]
    /\ query' = r.w.query
    /\ bufferpool' = r.w.bufferpool
    /\ disk' = r.w.disk
    /\ last' = QueryCall("_merge", <<page_range_index>>,
                         IF r.error = PyNone THEN RetNone ELSE Raised(r.error))
    /\ history' = [history EXCEPT !.merges = @ + 1, !.during = {}]
    /\ UNCHANGED <<lock_manager, universe, txn, transaction_id_counter, worker,
                   recency>>

\* the merge thread runs Table._merge and ends
MergeThread ==
    /\ table.merge_thread # None
    /\ MergeEnds(_merge(TheWorld, table.merge_thread), table.merge_thread)

\* a table as Table.__init__ builds it, or one with the counters assigned
InitQuery ==
    /\ lock_manager = NewLockManager
    /\ last = NoCall
    /\ universe = {}
    /\ table \in {Table_init, AssignCounters(Table_init)}
    /\ txn = <<>>
    /\ transaction_id_counter = 0
    /\ worker = <<>>
    /\ bufferpool = NewBufferPool
    /\ disk = InitFiles
    /\ recency = <<>>
    /\ query = NewQuery
    /\ history = NoHistory

NextQueryCall ==
    \/ \E columns \in InsertInputs : CallInsert(columns)
    \/ \E u \in UpdateInputs : CallUpdate(u[1], u[2])
    \/ \E primary_key \in DeleteInputs : CallDelete(primary_key)
    \/ \E s \in SelectInputs : CallSelect(s[1], s[2])
    \/ \E v \in VersionInputs : CallSelectVersion(v[1], v[2], v[3])
    \/ \E a \in SumInputs : CallSum(a[1], a[2], a[3])
    \/ \E a \in SumVersionInputs : CallSumVersion(a[1], a[2], a[3], a[4])
    \/ \E a \in IncrementInputs : CallIncrement(a[1], a[2])
    \/ CallMerge
    \/ MergeThread
    \/ CallClose
    \/ CallOpen

SpecQuery == InitQuery /\ [][NextQueryCall]_vars

(***************************************************************************)
(* The threads of a table: the threads that run Transaction.run for a      *)
(* transaction with one insert each, the thread that calls Table.merge,    *)
(* and the merge threads Table.merge starts.  Before the transactions      *)
(* start, the main thread inserts, updates and deletes by direct calls.    *)
(* worker holds the merge threads in the order they were started; a        *)
(* thread is alive until its pc is "dead".                                 *)
(***************************************************************************)

\* number of direct calls before the transactions start
MaxSetup == 3

\* number of merge threads Table.merge may start
MaxThreads == 2

\* the insert of the transaction of thread t
ThreadQueries(t) ==
    <<[name |-> "insert", arg |-> <<t + 3, 10, 20>>, valid |-> TRUE]>>

\* the name of a merge thread as the holder of a lock
MergeThreadName(n) == NumTxns + n

\* threading.Thread(target=self._merge, args=(pagerange_index,))
NewThread(pagerange_index) ==
    [pc |-> "started", page_range_index |-> pagerange_index]

\* Thread.is_alive
is_alive(thread) == thread.pc # "dead"

\* no transaction has started and no merge thread exists
BeforeThreads ==
    /\ \A t \in TxnObjs : txn[t].pc = "run"
    /\ worker = <<>>

\* a direct call of the main thread
SetupInsert(columns) ==
    /\ BeforeThreads
    /\ history.count < MaxSetup
    /\ CallInsert(columns)

SetupUpdate(primary_key, columns) ==
    /\ BeforeThreads
    /\ history.count < MaxSetup
    /\ CallUpdate(primary_key, columns)

SetupDelete(primary_key) ==
    /\ BeforeThreads
    /\ history.count < MaxSetup
    /\ CallDelete(primary_key)

\* a step of a thread ends: the world it leaves and the call
ThreadReturns(w, call) ==
    /\ table' = w.table
    /\ query' = w.query
    /\ bufferpool' = w.bufferpool
    /\ disk' = w.disk
    /\ last' = call
    /\ UNCHANGED <<lock_manager, universe, transaction_id_counter, recency,
                   history>>

\* Query.insert in the thread of a transaction, up to the call of
\* bufferpool.get_page(last_path): the Record is built from the counter and
\* added to the index.  An exception ends in the handler of run(), which
\* calls abort()
InsertBuild(t) ==
    /\ txn[t].pc = "exec"
    /\ txn' = [txn EXCEPT ![t] =
                IF "current_base_rid" \notin DOMAIN table THEN abort(@)
                ELSE [@ EXCEPT !.pc = "get_page",
                               !.record =
                                    NewBaseRecord(table,
                                                  txn[t].queries[txn[t].qi].arg)]]
    /\ worker' = worker
    /\ ThreadReturns(
          IF "current_base_rid" \notin DOMAIN table THEN TheWorld
          ELSE InsertIndex(TheWorld,
                           NewBaseRecord(table, txn[t].queries[txn[t].qi].arg)),
          [op |-> "build", thread |-> t])

\* Query.insert in the thread of a transaction, from get_page(last_path) to
\* the return, and the bookkeeping of run() after it; r is what the rest of
\* insert makes of the world
InsertWritten(t, r) ==
    /\ txn' = [txn EXCEPT ![t] =
                IF r.ret = RetTrue
                THEN NextQuery([@ EXCEPT !.changes =
                        Append(@, [rid |-> PyTrue, is_insert |-> TRUE])])
                ELSE abort(@)]
    /\ worker' = worker
    /\ ThreadReturns(r.w, [op |-> "insert", thread |-> t, ret |-> r.ret,
                           args |-> <<txn[t].queries[txn[t].qi].arg>>])

InsertWrite(t) ==
    /\ txn[t].pc = "get_page"
    /\ InsertWritten(t, InsertPage(TheWorld, txn[t].record))

\* Table.merge(0) called by the main thread: under merge_lock, a thread is
\* started unless one is alive
ThreadsCallMerge ==
    /\ table.merge_lock = None
    /\ Len(worker) < MaxThreads
    /\ worker' = IF NoLiveThread(table)
                 THEN Append(worker, NewThread(0)) ELSE worker
    /\ txn' = txn
    /\ ThreadReturns([TheWorld EXCEPT !.table = merge(@, 0)],
                     QueryCall("merge", <<0>>,
                               IF NoLiveThread(table) THEN RetNone ELSE RetFalse))

\* a merge thread enters the with-block of _merge
MergeEnter(n) ==
    /\ n \in DOMAIN worker
    /\ worker[n].pc = "started"
    /\ table.merge_lock = None
    /\ worker' = [worker EXCEPT ![n].pc = "_merge"]
    /\ txn' = txn
    /\ ThreadReturns([TheWorld EXCEPT !.table.merge_lock = MergeThreadName(n)],
                     [op |-> "enter", thread |-> MergeThreadName(n)])

\* a merge thread leaves the with-block of _merge, by its end or by an
\* exception; r is what the body made of the world
MergeLeft(n, r) ==
    /\ worker' = [worker EXCEPT ![n].pc = "released"]
    /\ txn' = txn
    /\ ThreadReturns([r.w EXCEPT !.table.merge_lock = None],
                     [op |-> "_merge", thread |-> MergeThreadName(n),
                      args |-> <<worker[n].page_range_index>>,
                      ret |-> IF r.error = PyNone THEN RetNone
                              ELSE Raised(r.error)])

MergeLeave(n) ==
    /\ n \in DOMAIN worker
    /\ worker[n].pc = "_merge"
    /\ MergeLeft(n, _merge(TheWorld, worker[n].page_range_index))

\* a merge thread ends: is_alive() is False from here on
ThreadExit(n) ==
    /\ n \in DOMAIN worker
    /\ worker[n].pc = "released"
    /\ worker' = [worker EXCEPT ![n].pc = "dead"]
    /\ txn' = txn
    /\ ThreadReturns(
          [TheWorld EXCEPT !.table.merge_thread =
                IF \E m \in DOMAIN worker : m # n /\ is_alive(worker[m])
                THEN @ ELSE None],
          [op |-> "exit", thread |-> MergeThreadName(n)])

\* a table with the counters assigned, its files, and a transaction with
\* one insert for each thread
InitThreads ==
    /\ lock_manager = NewLockManager
    /\ last = NoCall
    /\ universe = {}
    /\ table = AssignCounters(Table_init)
    /\ txn = [t \in TxnObjs |->
                NewTransaction(t, ThreadQueries(t)) @@ [record |-> NoneRecord]]
    /\ transaction_id_counter = NumTxns
    /\ worker = <<>>
    /\ bufferpool = NewBufferPool
    /\ disk = InitFiles
    /\ recency = <<>>
    /\ query = NewQuery
    /\ history = NoHistory

NextThreads ==
    \/ \E columns \in InsertInputs : SetupInsert(columns)
    \/ \E u \in UpdateInputs : SetupUpdate(u[1], u[2])
    \/ \E primary_key \in DeleteInputs : SetupDelete(primary_key)
    \/ \E t \in TxnObjs : Run(t)
    \/ \E t \in TxnObjs : AcquireTable(t)
    \/ \E t \in TxnObjs : InsertBuild(t)
    \/ \E t \in TxnObjs : InsertWrite(t)
    \/ \E t \in TxnObjs : Release(t)
    \/ ThreadsCallMerge
    \/ \E n \in 1..MaxThreads : MergeEnter(n)
    \/ \E n \in 1..MaxThreads : MergeLeave(n)
    \/ \E n \in 1..MaxThreads : ThreadExit(n)

SpecThreads == InitThreads /\ [][NextThreads]_vars


(***************************************************************************)
(* Properties of the lock manager                                          *)
(***************************************************************************)

\* what transaction t holds on item_id in the dictionary of one granularity
Holding(self, t, item_id, granularity) ==
    LET lock_dict == _get_lock_dict(self, granularity) IN
    IF item_id \in DOMAIN lock_dict
    THEN [reader |-> t \in lock_dict[item_id].readers,
          writer |-> lock_dict[item_id].writer = t]
    ELSE [reader |-> FALSE, writer |-> FALSE]

HoldsAny(self, t, item_id, granularity) ==
    Holding(self, t, item_id, granularity).reader
    \/ Holding(self, t, item_id, granularity).writer

ReadersOf(self, item_id, granularity) ==
    {t \in TxnIds : Holding(self, t, item_id, granularity).reader}

\* some transaction other than t is the writer of item_id at granularity
OtherWriter(self, t, item_id, granularity) ==
    \E o \in TxnIds \ {t} : Holding(self, o, item_id, granularity).writer

Coarser(granularity) ==
    IF granularity = RECORD THEN {TABLE, PAGE}
    ELSE IF granularity = PAGE THEN {TABLE}
    ELSE {}

\* the parents of an item: its proper path prefixes, at the coarser levels
ProperPrefixes(item_id) == {SubSeq(item_id, 1, n) : n \in 1..(Len(item_id) - 1)}

OtherWriterOnParent(self, t, item_id, granularity) ==
    \E g \in Coarser(granularity), parent_id \in ProperPrefixes(item_id) :
        OtherWriter(self, t, parent_id, g)

\* C1: in every reachable state, for every item at every granularity, if a
\* transaction T is the item's writer then no transaction other than T is a
\* reader (or the writer) of that item.
C1_WriterExcludesOthers ==
    \A g \in LockGranularity :
        \A item_id \in DOMAIN _get_lock_dict(lock_manager, g) :
            LET lock_info == _get_lock_dict(lock_manager, g)[item_id] IN
            lock_info.writer # None => lock_info.readers \subseteq {lock_info.writer}

\* a request was denied because another transaction is the item's writer
C1_Witness ==
    /\ last.op = "acquire"
    /\ last.ret = FALSE
    /\ last.t \notin lock_manager.shrinking_phase
    /\ OtherWriter(lock_manager, last.t, last.item, last.g)

\* C2 (as claimed): when T, in its growing phase, is the only SHARED holder
\* of an item and no other transaction holds EXCLUSIVE on the item or on a
\* parent of it, acquire_lock(T, item, EXCLUSIVE, g) returns true and T is
\* then the item's writer.
C2_UpgradeMakesWriter ==
    [][ ( /\ last'.op = "acquire"
          /\ last'.mode = EXCLUSIVE
          /\ last'.t \notin lock_manager.shrinking_phase
          /\ ReadersOf(lock_manager, last'.item, last'.g) = {last'.t}
          /\ ~OtherWriter(lock_manager, last'.t, last'.item, last'.g)
          /\ ~OtherWriterOnParent(lock_manager, last'.t, last'.item, last'.g) )
        => ( /\ last'.ret = TRUE
             /\ Holding(lock_manager', last'.t, last'.item, last'.g).writer ) ]_vars

\* C3: once a transaction has released (it is in the shrinking phase), each
\* later acquire_lock call by it, for any item, mode and granularity,
\* returns false and changes no lock table.
C3_NoAcquireAfterRelease ==
    [][ (last'.op = "acquire" /\ last'.t \in lock_manager.shrinking_phase)
        => ( /\ last'.ret = FALSE
             /\ lock_manager'.table_locks = lock_manager.table_locks
             /\ lock_manager'.page_locks = lock_manager.page_locks
             /\ lock_manager'.record_locks = lock_manager.record_locks ) ]_vars

\* a shrinking transaction was denied an item it still holds
C3_Witness ==
    /\ last.op = "acquire"
    /\ last.t \in lock_manager.shrinking_phase
    /\ last.ret = FALSE
    /\ HoldsAny(lock_manager, last.t, last.item, last.g)

\* the table item and the page item above an item, by path prefix
ParentTable(item_id) == SubSeq(item_id, 1, 1)
ParentPage(item_id) == SubSeq(item_id, 1, Len(item_id) - 1)

NewlyGranted ==
    /\ last'.op = "acquire"
    /\ last'.ret = TRUE
    /\ ~HoldsAny(lock_manager, last'.t, last'.item, last'.g)

\* C4 (as claimed): no PAGE lock is newly granted while another transaction
\* is the writer of the parent table item, no RECORD lock while another
\* transaction is the writer of the parent table item or of the parent page
\* item, and parents that others hold only SHARED never cause a denial.
C4_ParentWriterBlocksChild ==
    [][ /\ (NewlyGranted /\ last'.g \in {PAGE, RECORD})
             => ~OtherWriter(lock_manager, last'.t, ParentTable(last'.item), TABLE)
        /\ (NewlyGranted /\ last'.g = RECORD)
             => ~OtherWriter(lock_manager, last'.t, ParentPage(last'.item), PAGE)
        /\ ( /\ last'.op = "acquire"
              /\ last'.t \notin lock_manager.shrinking_phase
              /\ ~OtherWriterOnParent(lock_manager, last'.t, last'.item, last'.g)
              /\ ~OtherWriter(lock_manager, last'.t, last'.item, last'.g)
              /\ ReadersOf(lock_manager, last'.item, last'.g) \subseteq {last'.t} )
             => last'.ret = TRUE ]_vars

\* C5: a SHARED request by a growing transaction is granted whenever no
\* other transaction is the item's writer or holds EXCLUSIVE on a parent
\* item, however many others hold SHARED on it, and every previous reader
\* is still a reader afterwards.
C5_SharedCoexist ==
    [][ ( /\ last'.op = "acquire"
          /\ last'.mode = SHARED
          /\ last'.t \notin lock_manager.shrinking_phase
          /\ ~OtherWriter(lock_manager, last'.t, last'.item, last'.g)
          /\ ~OtherWriterOnParent(lock_manager, last'.t, last'.item, last'.g) )
        => ( /\ last'.ret = TRUE
             /\ ReadersOf(lock_manager, last'.item, last'.g)
                    \subseteq ReadersOf(lock_manager', last'.item, last'.g)
             /\ HoldsAny(lock_manager', last'.t, last'.item, last'.g) ) ]_vars

\* a SHARED request was granted on an item another transaction also reads
C5_Witness ==
    /\ last.op = "acquire"
    /\ last.mode = SHARED
    /\ last.ret = TRUE
    /\ last.t \in ReadersOf(lock_manager, last.item, last.g)
    /\ ReadersOf(lock_manager, last.item, last.g) # {last.t}

\* C6: after release_lock(T, item) by a transaction known to the manager, T
\* holds nothing on item in the table, page and record lock tables, and all
\* other holdings are unchanged; release_lock by an unknown transaction id
\* changes nothing.
C6_ReleaseFrame ==
    [][ last'.op = "release"
        => IF last'.t \in lock_manager.transactions
           THEN /\ \A g \in LockGranularity :
                      ~HoldsAny(lock_manager', last'.t, last'.item, g)
                /\ \A t \in TxnIds, item_id \in ItemsOf(universe), g \in LockGranularity :
                      (t # last'.t \/ item_id # last'.item)
                      => Holding(lock_manager', t, item_id, g)
                            = Holding(lock_manager, t, item_id, g)
           ELSE lock_manager' = lock_manager ]_vars

\* a transaction released an item that another transaction still holds,
\* while keeping a lock of its own on another item
C6_Witness ==
    /\ last.op = "release"
    /\ last.t \in lock_manager.shrinking_phase
    /\ \E o \in TxnIds \ {last.t}, g \in LockGranularity :
          HoldsAny(lock_manager, o, last.item, g)
    /\ \E rq \in universe :
          rq[1] # last.item /\ Holding(lock_manager, last.t, rq[1], rq[2]).writer

(***************************************************************************)
(* Properties of Transaction.run, commit and abort                         *)
(***************************************************************************)

\* C7 (as claimed): every lock run() requests for an insert, update or
\* delete query is requested EXCLUSIVE, and every lock it requests for a
\* select or sum query is requested SHARED.
C7_LockModeByQueryKind ==
    [][ last'.op = "acquire"
        => last'.mode = (IF last'.query \in {"insert", "update", "delete"}
                         THEN EXCLUSIVE ELSE SHARED) ]_vars

\* the granularities recorded in held_locks, in order of acquisition
GranularitiesOf(held_locks) == [i \in 1..Len(held_locks) |-> held_locks[i].g]

\* seq has the elements of sub, in that order, among its elements
HasSubsequence(seq, sub) ==
    \E f \in [1..Len(sub) -> 1..Len(seq)] :
        /\ \A i \in 1..Len(sub) : seq[f[i]] = sub[i]
        /\ \A i \in 1..(Len(sub) - 1) : f[i] < f[i + 1]

\* C8 (as claimed): when run() executes a query that is not an insert it
\* has acquired, and recorded in held_locks in this order, a TABLE, a
\* PAGE_RANGE, a PAGE and a RECORD lock; and a denied acquisition makes the
\* transaction abort without executing the query.
C8_HierarchicalOrder ==
    [][ /\ \A t \in TxnObjs :
            (txn'[t].pc = "exec" /\ txn[t].pc = "record")
            => HasSubsequence(GranularitiesOf(txn'[t].held_locks),
                              <<TABLE, "PAGE_RANGE", PAGE, RECORD>>)
        /\ (last'.op = "acquire" /\ last'.ret = FALSE)
            => txn'[last'.t].pc \in {"release", "done", "raised"} ]_vars

\* C9 (as claimed): an insert is executed holding exactly one lock acquired
\* for it, the table-level lock, and a successful insert appends exactly one
\* entry to the rollback log: the rid of the new base record, marked insert.
C9_InsertLogsNewRid ==
    [][ (last'.op = "exec" /\ last'.query = "insert" /\ last'.result = PyTrue)
        => LET before == txn[last'.t]
               after == txn'[last'.t]
               new_rid == "b" \o ToString(table.current_base_rid)
           IN  /\ before.qi = 1 =>
                    before.held_locks =
                        <<[item |-> <<table.name>>, g |-> TABLE, mode |-> EXCLUSIVE]>>
               /\ new_rid \in DOMAIN table'.page_directory
               /\ new_rid \notin DOMAIN table.page_directory
               /\ after.changes
                    = Append(before.changes, [rid |-> new_rid, is_insert |-> TRUE]) ]_vars

InsideRun == {"ids", "table", "page", "record", "exec"}

\* C10: once commit() has returned it has returned True, held_locks is
\* empty and the transaction is neither reader nor writer of any item; and
\* until commit() is called no lock recorded in held_locks has been
\* released (the transaction is still in its growing phase).
C10_CommitReleasesAll ==
    \A t \in TxnObjs :
        LET self == txn[t] IN
        /\ (self.pc = "done" /\ self.method = "commit")
            => /\ self.result = PyTrue
               /\ self.held_locks = <<>>
               /\ \A g \in LockGranularity :
                    \A item_id \in DOMAIN _get_lock_dict(lock_manager, g) :
                        ~HoldsAny(lock_manager, self.transaction_id, item_id, g)
        /\ self.pc \in InsideRun
            => /\ self.transaction_id \notin lock_manager.shrinking_phase
               /\ \A i \in 1..Len(self.held_locks) :
                    HoldsAny(lock_manager, self.transaction_id,
                             self.held_locks[i].item, self.held_locks[i].g)

\* a transaction committed after acquiring and releasing table, page and
\* record locks
C10_Witness ==
    \E t \in TxnObjs :
        /\ txn[t].pc = "done"
        /\ txn[t].method = "commit"
        /\ last.op = "release"
        /\ last.t = txn[t].transaction_id
        /\ txn[t].transaction_id \in lock_manager.shrinking_phase
        /\ lock_manager.record_locks # <<>>

\* abort() was called and control has left it, by return or by exception
AbortEnded(self) == self.method = "abort" /\ self.pc \in {"done", "raised"}

\* C11 (as claimed): whatever the rollback log holds, a call of abort()
\* ends by returning False, and then held_locks is empty and the
\* transaction is neither reader nor writer of any item.
C11_AbortReleasesAll ==
    \A t \in TxnObjs :
        LET self == txn[t] IN
        AbortEnded(self)
        => /\ self.pc = "done"
           /\ self.result = PyFalse
           /\ self.held_locks = <<>>
           /\ \A g \in LockGranularity :
                \A item_id \in DOMAIN _get_lock_dict(lock_manager, g) :
                    ~HoldsAny(lock_manager, self.transaction_id, item_id, g)

\* C12 (as claimed): a call of abort() returns whatever entries the
\* rollback log held before it, and the log is empty afterwards.
C12_AbortClearsChanges ==
    [][ \A t \in TxnObjs :
            (~AbortEnded(txn[t]) /\ AbortEnded(txn'[t]))
            => (txn'[t].pc = "done" /\ txn'[t].changes = <<>>) ]_vars

(***************************************************************************)
(* Properties of the transaction worker                                    *)
(***************************************************************************)

\* the for loop of _run is over
Finished(w) == worker[w].cur = None

\* the last attempt _run made for a transaction committed
Committed(entry) ==
    IF entry.caught = "none" THEN entry.value[1] = PyTrue
    ELSE entry.value = PyTrue

\* the last attempt reported the duplicate-key tag
ReportedDupe(entry) == entry.caught = "none" /\ entry.value[2] = DupeTag

LogEntries == {<<w, k>> \in Workers \X (1..NumTxns) : k <= Len(worker[w].log)}

\* C13 (as claimed): the value run() returns is a pair (committed, tag), so
\* the worker's unpacking of it into result and dupe never fails.
C13_RunReturnsPair ==
    /\ \A t \in DOMAIN txn : txn[t].pc = "done" => ~IsBool(txn[t].result)
    /\ \A e \in LogEntries : worker[e[1]].log[e[2]].caught # "TypeError"

\* the key of an insert already has a base record when the insert executes
InsertsIndexedKey(t) ==
    /\ txn[t].pc = "exec"
    /\ NameContainsInsert(txn[t].queries[txn[t].qi].name)
    /\ txn[t].queries[txn[t].qi].valid
    /\ txn[t].queries[txn[t].qi].arg \in DOMAIN table.primary_key_cache

BaseRecordsOf(tbl, primary_key) == {e \in tbl.sorted_records : e[1] = primary_key}

\* C14 (as claimed): an insert whose primary key already has a base record
\* adds no record, the key keeps exactly one base record, and the
\* transaction containing the insert aborts instead of committing.
C14_DuplicateInsertRejected ==
    [][ \A t \in TxnObjs :
            (InsertsIndexedKey(t) /\ txn'[t] # txn[t])
            => /\ table' = table
               /\ Cardinality(BaseRecordsOf(table',
                        txn[t].queries[txn[t].qi].arg)) = 1
               /\ txn'[t].method = "abort" ]_vars

\* C15 (as claimed): a worker takes its transactions in list order and makes
\* at most 1 + RetryLimit attempts for each, going on to the next transaction
\* only after an attempt that committed or reported the duplicate-key tag, or
\* after the last allowed attempt.
C15_RetryUntilCommit ==
    \A w \in Workers :
        LET self == worker[w] IN
        /\ Len(self.log) <= Len(self.transactions)
        /\ \A k \in 1..Len(self.log) :
            /\ self.log[k].transaction = self.transactions[k]
            /\ self.log[k].attempts <= 1 + RetryLimit
            /\ \/ Committed(self.log[k])
               \/ ReportedDupe(self.log[k])
               \/ self.log[k].attempts = 1 + RetryLimit

AllUpdateSameKey ==
    \E arg \in {ExistingKey, PresentRid} :
        \A t \in TxnObjs :
            txn[t].queries = <<[name |-> "update", arg |-> arg, valid |-> TRUE]>>

\* C17 (as claimed): when the workers' transactions each update the same
\* existing record, every one of them has committed once the workers have
\* finished.
C17_BothUpdatersCommit ==
    ( /\ AllUpdateSameKey
      /\ \A w \in Workers : Finished(w) /\ worker[w].transactions # <<>> )
    => \A e \in LogEntries : Committed(worker[e[1]].log[e[2]])

CommittedTxns == {t \in TxnObjs : \E e \in LogEntries :
                    /\ worker[e[1]].log[e[2]].transaction = t
                    /\ Committed(worker[e[1]].log[e[2]])}

InsertsOf(ts) ==
    {<<t, k>> \in ts \X (1..MaxQueries) :
        /\ k <= Len(txn[t].queries)
        /\ NameContainsInsert(txn[t].queries[k].name)}

\* C18 (as claimed): once all workers have finished, every transaction of
\* their lists has committed, and the table holds what the committed
\* transactions wrote and nothing else: one base record for each of their
\* inserts besides the record it started with.
C18_AllCommitSerially ==
    (\A w \in Workers : Finished(w))
    => /\ CommittedTxns = TxnObjs
       /\ Cardinality(table.sorted_records)
            = 1 + Cardinality(InsertsOf(CommittedTxns))

(***************************************************************************)
(* Properties of the buffer pool                                           *)
(***************************************************************************)

\* C19: after any sequence of get_page, add_frame, unpin_page, mark_dirty,
\* evict_page and rename_frame calls (and abs_remove_frame calls) the pool
\* holds at most POOL_SIZE frames.
C19_AtMostPoolSize == Len(bufferpool.frames) <= POOL_SIZE

\* a frame was added to a full pool after an eviction; the pool is full
C19_Witness ==
    /\ last.op \in {"add_frame", "get_page"}
    /\ last.evicted # PyNone
    /\ last.ret # PyNone
    /\ Len(bufferpool.frames) = POOL_SIZE

\* the pool holds pool_size frames and every one of them is pinned
FullAndPinned(self) ==
    /\ Len(self.frames) = self.pool_size
    /\ \A n \in 1..Len(self.frames) : self.frames[n].pin_count > 0

\* C20: the frame an eviction removes has pin count zero; and when the pool
\* holds POOL_SIZE frames, all pinned, evict_page returns False, add_frame
\* and get_page for a path that is not resident return None, and the frames
\* with their pin counts, dirty bits and order stay as they are.
C20_PinnedNeverEvicted ==
    [][ /\ (last'.op \in {"evict_page", "add_frame", "get_page"}
            /\ last'.evicted # PyNone)
            => /\ Resident(bufferpool, last'.evicted)
               /\ bufferpool.frames[FrameIndex(bufferpool, last'.evicted)].pin_count = 0
               /\ ~Resident(bufferpool', last'.evicted)
        /\ (FullAndPinned(bufferpool) /\ last'.op = "evict_page")
            => (last'.ret = PyFalse /\ bufferpool' = bufferpool /\ disk' = disk)
        /\ ( /\ FullAndPinned(bufferpool)
             /\ last'.op \in {"add_frame", "get_page"}
             /\ ~Resident(bufferpool, last'.page_path) )
            => (last'.ret = PyNone /\ bufferpool' = bufferpool /\ disk' = disk) ]_vars

\* get_page for a page that has a file returned None because the pool is
\* full of pinned frames, one of them dirty
C20_Witness ==
    /\ last.op = "get_page"
    /\ last.ret = PyNone
    /\ Exists(disk, last.page_path)
    /\ ~Resident(bufferpool, last.page_path)
    /\ FullAndPinned(bufferpool)
    /\ \E n \in 1..Len(bufferpool.frames) : bufferpool.frames[n].dirty_bit = 1

\* the keys of recency whose frames are unpinned and have the dirty bit d
LruCandidates(self, keys, d) ==
    SelectSeq(keys, LAMBDA k :
        /\ Resident(self, k)
        /\ self.frames[FrameIndex(self, k)].pin_count = 0
        /\ self.frames[FrameIndex(self, k)].dirty_bit = d)

\* the key of the frame the eviction is to remove: the least recently used
\* unpinned clean frame, else the least recently used unpinned dirty frame
LruVictim(self, keys) ==
    IF LruCandidates(self, keys, 0) # <<>> THEN Head(LruCandidates(self, keys, 0))
    ELSE IF LruCandidates(self, keys, 1) # <<>> THEN Head(LruCandidates(self, keys, 1))
    ELSE PyNone

\* the file at page_path holds the page
OnDiskEquals(files, page_path, page) ==
    /\ Exists(files, page_path)
    /\ files[page_path].written
    /\ deserialize(files[page_path].bytes) = page

\* evict_page, called on a full pool, removed the least recently used of
\* the unpinned clean frames, or else of the unpinned dirty frames
EvictsLru ==
    (/\ last'.op = "evict_page"
     /\ Len(bufferpool.frames) = bufferpool.pool_size
     /\ LruVictim(bufferpool, recency) # PyNone)
    => /\ last'.ret = PyTrue
       /\ last'.evicted = LruVictim(bufferpool, recency)
       /\ bufferpool'.frames =
            DelFrame(bufferpool.frames,
                     FrameIndex(bufferpool, LruVictim(bufferpool, recency)))

\* an eviction of a dirty frame left the page of the frame on disk
EvictionWritesBack ==
    (/\ last'.op \in {"evict_page", "add_frame", "get_page"}
     /\ last'.evicted # PyNone
     /\ bufferpool.frames[FrameIndex(bufferpool, last'.evicted)].dirty_bit = 1)
    => OnDiskEquals(disk', last'.evicted, PageOf(bufferpool, last'.evicted))

\* C21: when the pool is full, evict_page removes exactly one frame, the
\* least recently used (by last get_page or add_frame) of the unpinned
\* clean frames if there is one and else the least recently used unpinned
\* dirty frame; and the file of an evicted dirty page holds the content the
\* page had in memory when it was evicted.
C21_EvictsLruAndWritesBack == [][EvictsLru /\ EvictionWritesBack]_vars

(***************************************************************************)
(* Properties of the queries                                               *)
(***************************************************************************)

\* the keys that one insert put into the table and no delete took out
Live(h) == (DOMAIN h.versions \ h.twice) \ h.deleted

\* the mask that selects every column
AllOnes == <<1, 1, 1>>

\* a value returned holds exactly one record, with the columns given
OneRecord(ret, columns) ==
    /\ ret.kind = "records"
    /\ Len(ret.records) = 1
    /\ ret.records[1].columns = columns

\* C22: after a successful insert of a new key, and whatever inserts, updates
\* and selects of other keys follow, select(k, 0, all-ones) returns exactly
\* one record whose columns are the inserted ones
C22_InsertSelectRoundTrip ==
    [][(/\ last'.op = "select"
        /\ last'.args[2] = AllOnes
        /\ last'.args[1] \in Live(history)
        /\ Len(history.versions[last'.args[1]]) = 1
        /\ history.deleted = {}
        /\ history.merges = 0)
       => OneRecord(last'.ret, history.versions[last'.args[1]][1])]_vars

\* the record stored under a rid, in the page of the frame of its path
StoredRecord(self, pool, rid) ==
    PageOf(pool, self.page_directory[rid].path)
        .data[self.page_directory[rid].offset + 1]

\* a select of every column of a live key that was updated returns the
\* columns as the updates left them
SelectAfterUpdates ==
    (/\ last'.op = "select"
     /\ last'.args[2] = AllOnes
     /\ last'.args[1] \in Live(history)
     /\ Len(history.versions[last'.args[1]]) > 1
     /\ history.deleted = {}
     /\ history.merges = 0)
    => OneRecord(last'.ret,
                 history.versions[last'.args[1]][Len(history.versions[last'.args[1]])])

\* after a successful update the schema_encoding of the base record has a
\* 1 in exactly the positions the updates of the key have set
SchemaAfterUpdate ==
    (/\ last'.op = "update"
     /\ last'.ret = RetTrue
     /\ last'.args[1] \in Live(history')
     /\ history.merges = 0)
    => StoredRecord(table', bufferpool', locate(table'.index, last'.args[1]))
            .schema_encoding
        = [i \in 1..table'.num_columns |->
            IF i \in history'.set[last'.args[1]] THEN 1 ELSE 0]

\* C23: after any non-empty sequence of successful updates of an existing key
\* k, select(k, 0, all-ones) returns for each column the value of the most
\* recent update that set it, or the inserted value if none did, and the
\* schema_encoding of the base record has a 1 in exactly the positions that
\* some update has set
C23_SelectReturnsLatestUpdate ==
    [][SelectAfterUpdates /\ SchemaAfterUpdate]_vars

\* a select of every column of a deleted key returns the deletion marker:
\* one record whose columns are all None
SelectAfterDelete ==
    (/\ last'.op = "select"
     /\ last'.args[2] = AllOnes
     /\ last'.args[1] \in (DOMAIN history.versions \ history.twice)
     /\ last'.args[1] \in history.deleted
     /\ history.merges = 0)
    => OneRecord(last'.ret, [i \in 1..table.num_columns |-> None])

\* after a successful delete the indirection of the base record is the rid
\* of the deletion marker, the tail rid the delete drew
BaseNamesMarker ==
    (/\ last'.op = "delete"
     /\ last'.ret = RetTrue
     /\ last'.args[1] \in (DOMAIN history.versions \ history.twice)
     /\ history.merges = 0)
    => StoredRecord(table', bufferpool', locate(table.index, last'.args[1]))
            .indirection = TailRid(table.current_tail_rid)

\* C24: after a successful delete(k) of an existing key, whatever number of
\* updates preceded it, select(k, 0, all-ones) returns the deletion marker
\* as the latest version, a record whose columns are all None, and the
\* indirection of the base record is the rid of the deletion marker
C24_DeleteLeavesMarker == [][SelectAfterDelete /\ BaseNamesMarker]_vars

\* the rids the runs can draw
BaseRids == {BaseRid(n) : n \in 0..MaxCalls}
TailRids == {TailRid(n) : n \in 0..(2 * MaxCalls)}

\* the page object that holds the records of a path: the page of the frame,
\* a page that lives in tail_page_cache alone, or none
PageObject(pool, q, path) ==
    IF Resident(pool, path) THEN PageOf(pool, path)
    ELSE IF \E pr \in DOMAIN q.tail_page_cache :
                /\ q.tail_page_cache[pr].path = path
                /\ ~q.tail_page_cache[pr].attached
    THEN q.tail_page_cache[
            CHOOSE pr \in DOMAIN q.tail_page_cache :
                /\ q.tail_page_cache[pr].path = path
                /\ ~q.tail_page_cache[pr].attached].page
    ELSE NonePage

\* the record of a rid, or none
RecordOf(self, pool, q, rid) ==
    IF rid \notin DOMAIN self.page_directory \/ self.page_directory[rid].merged
    THEN NoneRecord
    ELSE LET page == PageObject(pool, q, self.page_directory[rid].path) IN
         IF page = NonePage \/ self.page_directory[rid].offset >= Len(page.data)
         THEN NoneRecord
         ELSE page.data[self.page_directory[rid].offset + 1]

\* the chain of indirection pointers from rid on visits no record twice,
\* visits only tail records of the base record and ends at a record whose
\* indirection is the base rid
RECURSIVE ChainEnds(_, _, _, _, _, _)
ChainEnds(self, pool, q, base_rid, rid, visited) ==
    IF rid = base_rid THEN TRUE
    ELSE /\ rid \notin visited
         /\ rid \in TailRids
         /\ RecordOf(self, pool, q, rid) # NoneRecord
         /\ RecordOf(self, pool, q, rid).base_rid = base_rid
         /\ ChainEnds(self, pool, q, base_rid,
                      RecordOf(self, pool, q, rid).indirection,
                      visited \cup {rid})

\* C25: after any sequence of inserts, updates and deletes, for every base
\* record the chain of indirection pointers from the base record's
\* indirection visits no record twice, visits only tail records whose
\* base_rid is that base record, and ends at a record whose indirection is
\* the base rid
C25_ChainAcyclic ==
    history.merges = 0 =>
        \A rid \in DOMAIN table.page_directory \cap BaseRids :
            /\ RecordOf(table, bufferpool, query, rid) # NoneRecord
            /\ ChainEnds(table, bufferpool, query, rid,
                         RecordOf(table, bufferpool, query, rid).indirection, {})

\* the columns of a key v versions back, of the versions the history holds:
\* the inserted row when v reaches or passes the number of updates
VersionBack(versions, v) ==
    IF v >= Len(versions) - 1 THEN versions[1]
    ELSE versions[Len(versions) - v]

\* C26: for a key that received n >= 1 updates, select_version(k, 0, mask, -v)
\* returns the row as it was after its first n - v updates, version 0 being
\* the latest version and any v >= n giving the inserted row, and the
\* columns of the record returned are those whose mask bit is 1
C26_SelectVersionProjected ==
    [][(/\ last'.op = "select_version"
        /\ last'.args[1] \in Live(history)
        /\ Len(history.versions[last'.args[1]]) > 1
        /\ history.deleted = {}
        /\ history.merges = 0)
       => OneRecord(last'.ret,
                    Project(VersionBack(history.versions[last'.args[1]],
                                        0 - last'.args[3]),
                            last'.args[2]))]_vars

\* the sum of a column over the latest versions of the keys given; a
\* deleted row has None in every column and adds nothing
RECURSIVE SumOfLatest(_, _, _)
SumOfLatest(h, keys, aggregate_column_index) ==
    IF keys = {} THEN 0
    ELSE LET k == CHOOSE key \in keys : TRUE IN
         (IF k \in h.deleted THEN 0
          ELSE h.versions[k][Len(h.versions[k])][aggregate_column_index + 1])
         + SumOfLatest(h, keys \ {k}, aggregate_column_index)

\* the keys of the rows of a range
KeysIn(h, start_range, end_range) ==
    {k \in DOMAIN h.versions : start_range <= k /\ k <= end_range}

\* C27: in every table state reached by inserts, updates and deletes,
\* sum(a, b, c) is the sum of column c over the latest version of every row
\* whose primary key lies in [a, b], rows whose latest value is None adding
\* nothing, and it returns False only when no row has its key in [a, b]
C27_SumOverLatest ==
    [][(/\ last'.op = "sum"
        /\ history.twice = {}
        /\ history.merges = 0)
       => last'.ret =
            IF KeysIn(history, last'.args[1], last'.args[2]) = {} THEN RetFalse
            ELSE RetNumber(SumOfLatest(history,
                                       KeysIn(history, last'.args[1], last'.args[2]),
                                       last'.args[3]))]_vars

\* two values returned by select hold a record each, with the same columns
SameColumns(before, after) ==
    /\ before.kind = "records"
    /\ after.kind = "records"
    /\ after.records[1].columns = before.records[1].columns

TailSuffixes(self, page_range_index) ==
    {n \in 0..(2 * MaxCalls) :
        /\ TailRid(n) \in DOMAIN self.page_directory
        /\ ~self.page_directory[TailRid(n)].merged
        /\ _parse_page_path(self.page_directory[TailRid(n)].path)[1]
                = page_range_index}

\* the files of the base pages of a page range
BaseContents(files, page_range_index) ==
    [j \in BaseFiles(files, page_range_index) |->
        files[BasePath(page_range_index, j)]]

\* the watermark of a page range, or no watermark
Tps(self, page_range_index) ==
    IF "page_range_tps" \in DOMAIN self
       /\ page_range_index \in DOMAIN self.page_range_tps
    THEN self.page_range_tps[page_range_index]
    ELSE None

\* a second merge, run in world w right after a merge, left world again
SecondMergeNoOp(w, again, page_range_index) ==
    /\ BaseContents(again.disk, page_range_index)
            = BaseContents(w.disk, page_range_index)
    /\ again.table.page_directory = w.table.page_directory
    /\ Tps(again.table, page_range_index) = Tps(w.table, page_range_index)

\* a merge run again right after a merge changes nothing
MergeTwice ==
    last'.op = "_merge" =>
        SecondMergeNoOp(TheWorld', _merge(TheWorld', last'.args[1]).w,
                        last'.args[1])

\* the watermark of page range 0 never decreases
TpsMonotone ==
    (Tps(table, 0) # None /\ Tps(table', 0) # None)
        => Tps(table', 0) >= Tps(table, 0)

\* after a merge that ended without an exception the page range has a
\* watermark: the largest suffix of the tail rids it merged, or the
\* watermark before when it merged none
TpsAfterMerge ==
    (last'.op = "_merge" /\ last'.ret = RetNone)
    => /\ Tps(table', last'.args[1]) # None
       /\ Tps(table', last'.args[1]) =
            IF TailSuffixes(table, last'.args[1]) = {}
            THEN Tps(table, last'.args[1])
            ELSE Max(TailSuffixes(table, last'.args[1]))

\* C29: running merge on a page range twice in a row with no write in
\* between is a no-op the second time: base page contents, the page
\* directory and the watermark (TPS) of the page range after the second
\* merge equal those after the first; the TPS of a page range never
\* decreases, and after a successful merge it equals the largest tail-rid
\* suffix merged
C29_MergeIdempotentTps == [][MergeTwice /\ TpsMonotone /\ TpsAfterMerge]_vars

\* the page the buffer pool holds or would read for a path
PageAt(pool, files, path) ==
    IF Resident(pool, path) THEN PageOf(pool, path)
    ELSE read_from_disk(files, path)

\* an entry of the page directory is one location and the record stored
\* there has the rid
Resolves(self, pool, files, rid) ==
    /\ ~self.page_directory[rid].merged
    /\ PageAt(pool, files, self.page_directory[rid].path) # NonePage
    /\ self.page_directory[rid].offset
            < Len(PageAt(pool, files, self.page_directory[rid].path).data)
    /\ PageAt(pool, files, self.page_directory[rid].path)
            .data[self.page_directory[rid].offset + 1].rid = rid

\* C30: once a rid, base or tail, has an entry (page_path, slot_offset) in
\* the page directory, every later state reached by insert, update, delete
\* or merge maps the rid to the same single pair, and the record stored at
\* that location has that rid
C30_PageDirectoryStable ==
    [][\A rid \in DOMAIN table.page_directory :
        /\ rid \in DOMAIN table'.page_directory
        /\ table'.page_directory[rid] = table.page_directory[rid]
        /\ Resolves(table', bufferpool', disk', rid)]_vars

\* the tail record a write appended has an entry in the page directory that
\* names the place where it is stored
TailKept(self, pool, files, rid) ==
    /\ rid \in DOMAIN self.page_directory
    /\ Resolves(self, pool, files, rid)

\* select of every column of key k in world w returns the columns the
\* writes of the history have left
SelectsLatest(w, h, k) ==
    OneRecord(select(w, k, AllOnes).ret, h.versions[k][Len(h.versions[k])])

\* C31: an update or delete that executes while a merge of the same page
\* range is in progress is not lost: after the merge has ended, the tail
\* record it appended is still resolvable through the page directory and
\* select on its key returns the values it wrote
C31_WriteDuringMergeKept ==
    [][last'.op = "_merge" =>
        \A d \in history.during :
            /\ TailKept(table', bufferpool', disk', d[2])
            /\ d[1] \in Live(history) => SelectsLatest(TheWorld', history, d[1])]_vars

\* close has written the page of every frame of the pool to its file
PagesWritten(pool, files) ==
    \A n \in 1..Len(pool.frames) :
        OnDiskEquals(files, pool.frames[n].page_path, pool.frames[n].page)

\* select of every column of the live keys returns in world after the
\* columns it returns in world before
SelectsSame(before, after, h) ==
    \A k \in Live(h) :
        SameColumns(select(before, k, AllOnes).ret, select(after, k, AllOnes).ret)

\* C32: after any sequence of successful inserts, updates and deletes
\* followed by Database.close(), every page modified since open has been
\* written to disk with its latest content, and after reopening the
\* database select(k, 0, all-ones) returns for every key the same columns
\* as immediately before close
C32_DurableAcrossClose ==
    [][last'.op = "close" =>
        /\ PagesWritten(bufferpool, disk')
        /\ SelectsSame(TheWorld, open(TheWorld'), history)]_vars

\* the operations of Query
QueryOps ==
    {"insert", "update", "delete", "select", "select_version", "sum",
     "sum_version", "increment"}

\* the operations of Query that look their first argument up in the index
\* as a primary key
KeyedOps == {"update", "delete", "select", "select_version", "increment"}

\* the call that ended did not raise, and it did not return None
ReturnsValue ==
    last'.op \in QueryOps => (last'.ret.kind # "raised" /\ last'.ret # RetNone)

\* a call with a primary key that is absent from the index returns False
AbsentKeyFalse ==
    (last'.op \in KeyedOps /\ locate(table.index, last'.args[1]) = PyFalse)
        => last'.ret = RetFalse

\* C33: no Query operation (insert, update, delete, select, select_version,
\* sum, sum_version, increment) ever raises: on every failure, including a
\* primary key absent from the index, a rid absent from the page directory
\* and a buffer-pool get that returns no page, the operation returns the
\* value False
C33_QueriesNeverRaise == [][ReturnsValue /\ AbsentKeyFalse]_vars

\* the keys of the range [start_range, end_range] that the index holds
VersionKeys(w, start_range, end_range) ==
    {k \in start_range..end_range : locate(w.table.index, k) # PyFalse}

\* select_version(k, 0, all-ones, relative_version) returns one record with
\* a value in the column
HasVersion(w, k, column, relative_version) ==
    /\ select_version(w, k, AllOnes, relative_version).ret.kind = "records"
    /\ select_version(w, k, AllOnes, relative_version)
            .ret.records[1].columns[column + 1] # None

\* the sum, over the keys, of the column of the record that
\* select_version(k, 0, all-ones, relative_version) returns
RECURSIVE SumOfVersions(_, _, _, _)
SumOfVersions(w, keys, column, relative_version) ==
    IF keys = {} THEN 0
    ELSE select_version(w, Min(keys), AllOnes, relative_version)
                .ret.records[1].columns[column + 1]
         + SumOfVersions(w, keys \ {Min(keys)}, column, relative_version)

\* C38: for every table state, key range [a, b], column c and relative
\* version v, sum_version(a, b, c, v) equals the sum, over the keys in
\* [a, b], of column c of the record that select_version(k, 0, all-ones, v)
\* returns for that key: the version walk of sum_version stops at the oldest
\* version just as the one of select_version does
C38_SumVersionFollowsSelectVersion ==
    [][(/\ last'.op = "sum_version"
        /\ VersionKeys(TheWorld, last'.args[1], last'.args[2]) # {}
        /\ \A k \in VersionKeys(TheWorld, last'.args[1], last'.args[2]) :
                HasVersion(TheWorld, k, last'.args[3], last'.args[4]))
       => last'.ret =
            RetNumber(SumOfVersions(TheWorld,
                                    VersionKeys(TheWorld, last'.args[1], last'.args[2]),
                                    last'.args[3], last'.args[4]))]_vars

\* the operations of Query that the pins are counted over
PinnedOps ==
    {"insert", "update", "delete", "select", "select_version", "sum",
     "sum_version"}

\* the pin count of the frame of a page
PinCount(pool, page_path) == pool.frames[FrameIndex(pool, page_path)].pin_count

\* no frame has a negative pin count
PinsNonNegative(pool) ==
    \A n \in 1..Len(pool.frames) : pool.frames[n].pin_count >= 0

\* the frames a call found in the pool and left there have the pin count
\* they had, and the frames it added are left without a pin
PinsRestored(before, after) ==
    \A n \in 1..Len(after.frames) :
        after.frames[n].pin_count =
            IF Resident(before, after.frames[n].page_path)
            THEN PinCount(before, after.frames[n].page_path)
            ELSE 0

\* C36: pins are balanced: the pin count of every frame is never negative,
\* and after any Query operation (insert, update, delete, select,
\* select_version, sum, sum_version) returns, the pin count of every frame
\* equals its value before the operation
C36_PinsBalanced ==
    [][/\ PinsNonNegative(bufferpool')
       /\ last'.op \in PinnedOps => PinsRestored(bufferpool, bufferpool')]_vars

\* the page ranges that exist: those with a page file
PageRanges(files) ==
    {pr \in 0..MaxCalls :
        BaseFiles(files, pr) # {} \/ TailFiles(files, pr) # {}}

\* the table keeps one counter for each page range that exists
OneCounterPerPageRange(self, files) ==
    Len(self.pr_unmerged_updates) = Cardinality(PageRanges(files))

\* the page range of the base record of a key
BasePageRange(self, primary_key) ==
    _parse_page_path(
        self.page_directory[locate(self.index, primary_key)].path)[1]

\* a successful update or delete of a key adds one to the counter of the
\* page range of its base record and leaves the other counters as they were
CountsWrite(before, after, primary_key) ==
    /\ Len(after.pr_unmerged_updates) = Len(before.pr_unmerged_updates)
    /\ \A n \in 1..Len(before.pr_unmerged_updates) :
        after.pr_unmerged_updates[n] =
            IF n = BasePageRange(before, primary_key) + 1
            THEN before.pr_unmerged_updates[n] + 1
            ELSE before.pr_unmerged_updates[n]

\* a write starts the merge thread of the page range when its counter
\* reaches MERGE_THRESH, and at no other value
RequestsAtThreshold(before, after, primary_key) ==
    (before.merge_thread = None)
    => ((after.merge_thread # None)
        <=> (after.pr_unmerged_updates[BasePageRange(before, primary_key) + 1]
                = MERGE_THRESH))

\* C35: the table keeps exactly one unmerged-updates counter per existing
\* page range; every successful update or delete increments by exactly one
\* the counter of the page range that holds the base record of the row and
\* leaves the others unchanged; a merge for that page range is requested
\* exactly when the counter reaches MERGE_THRESH, and a completed merge
\* resets that counter to zero
C35_UnmergedUpdatesCounted ==
    [][/\ OneCounterPerPageRange(table', disk')
       /\ (last'.op \in {"update", "delete"} /\ last'.ret = RetTrue)
            => /\ CountsWrite(table, table', last'.args[1])
               /\ RequestsAtThreshold(table, table', last'.args[1])
       /\ (last'.op = "_merge" /\ last'.ret = RetNone)
            => table'.pr_unmerged_updates[last'.args[1] + 1] = 0]_vars

\* a transaction holds a lock on an item in the lock manager
HoldsLock(lock_dict, transaction_id, item_id) ==
    /\ item_id \in DOMAIN lock_dict
    /\ \/ transaction_id \in lock_dict[item_id].readers
       \/ lock_dict[item_id].writer = transaction_id

\* the page of a record lock id and the table of a lock id, as
\* _get_lock_ids builds the ids
PageOfRecord(record_id) == SubSeq(record_id, 1, Len(record_id) - 1)
TableOfItem(item_id) == <<item_id[1]>>

\* who holds a RECORD lock holds the locks of its page and of its table, and
\* who holds a PAGE lock holds the lock of its table
AncestorsHeld(self) ==
    \A t \in self.transactions :
        /\ \A r \in DOMAIN self.record_locks :
            HoldsLock(self.record_locks, t, r)
            => /\ HoldsLock(self.page_locks, t, PageOfRecord(r))
               /\ HoldsLock(self.table_locks, t, TableOfItem(r))
        /\ \A p \in DOMAIN self.page_locks :
            HoldsLock(self.page_locks, t, p)
            => HoldsLock(self.table_locks, t, TableOfItem(p))

\* next to the writer of a table no other transaction holds a lock on a
\* page or a record of the table
TableWriterAlone(self) ==
    \A tb \in DOMAIN self.table_locks :
        \A t \in self.transactions \ {self.table_locks[tb].writer} :
            self.table_locks[tb].writer # None
            => /\ \A p \in DOMAIN self.page_locks :
                    TableOfItem(p) = tb => ~HoldsLock(self.page_locks, t, p)
               /\ \A r \in DOMAIN self.record_locks :
                    TableOfItem(r) = tb => ~HoldsLock(self.record_locks, t, r)

\* C40: while transactions acquire locks only through Transaction.run, in
\* every reachable state a transaction that holds a RECORD lock also holds
\* the lock on the page of the record and on its table, and a transaction
\* that holds a PAGE lock also holds the lock on its table; hence a
\* transaction holding EXCLUSIVE on a table never coexists with another
\* transaction holding any lock on a page or record of that table
C40_LockHierarchy ==
    AncestorsHeld(lock_manager) /\ TableWriterAlone(lock_manager)

\* a transaction is the writer of a table, a page and a record at once while
\* another transaction has asked for a lock and was refused
C40_Witness ==
    \E t \in TxnObjs, r \in DOMAIN lock_manager.record_locks :
        /\ lock_manager.record_locks[r].writer = t
        /\ lock_manager.page_locks[PageOfRecord(r)].writer = t
        /\ lock_manager.table_locks[TableOfItem(r)].writer = t
        /\ \E u \in TxnObjs \ {t} :
            /\ u \in lock_manager.transactions
            /\ txn[u].method = "abort"

\* the paths a page of the table can have
AllPagePaths ==
    {BasePath(ix[1], ix[2]) : ix \in PathIndices}
        \cup {TailPath(ix[1], ix[2]) : ix \in PathIndices}

\* the paths of the frames of the pool
FramePaths(pool) == {pool.frames[n].page_path : n \in 1..Len(pool.frames)}

\* the pages of the table that hold records, in the pool or in their file
StoredPaths(pool, files) ==
    {p \in (DOMAIN files \cup FramePaths(pool)) \cap AllPagePaths :
        PageAt(pool, files, p) # NonePage}

\* the places where the table holds a record: a page and a slot of the page
Places(pool, files) ==
    UNION {{<<p, i>> : i \in 1..Len(PageAt(pool, files, p).data)} :
            p \in StoredPaths(pool, files)}

\* the rid of the record at a place
RidAt(pool, files, pl) == PageAt(pool, files, pl[1]).data[pl[2]].rid

\* the counter value of a rid, and whether it is a tail rid
RidNumber(rid) ==
    CHOOSE n \in 0..(4 * MaxCalls) : rid \in {BaseRid(n), TailRid(n)}
IsTailRid(rid) == \E n \in 0..(4 * MaxCalls) : rid = TailRid(n)

\* no two records of the table carry the same rid
DistinctRids(pool, files) ==
    \A p1, p2 \in Places(pool, files) :
        p1 # p2 => RidAt(pool, files, p1) # RidAt(pool, files, p2)

\* a record that a step other than a merge has stored carries a rid above
\* those of the records of its class stored before
RidsAscend ==
    last'.op # "_merge" =>
        \A new \in Places(bufferpool', disk') \ Places(bufferpool, disk) :
            \A old \in Places(bufferpool, disk) :
                (IsTailRid(RidAt(bufferpool', disk', new))
                    <=> IsTailRid(RidAt(bufferpool, disk, old)))
                => RidNumber(RidAt(bufferpool', disk', new))
                        > RidNumber(RidAt(bufferpool, disk, old))

InBody(threads) == {n \in DOMAIN threads : threads[n].pc = "_merge"}

\* at most one merge thread is inside the body of _merge, and it holds the
\* merge lock
OneMergeBody(self, threads) ==
    /\ Cardinality(InBody(threads)) <= 1
    /\ \A n \in InBody(threads) : self.merge_lock = MergeThreadName(n)

\* a call of Table.merge made while a merge thread is alive starts no thread
\* and returns False
MergeRefused ==
    (last'.op = "merge" /\ \E n \in DOMAIN worker : is_alive(worker[n]))
        => /\ worker' = worker
           /\ last'.ret = RetFalse

\* C34: at most one merge body executes per table at any time: while a merge
\* thread of the table is alive, a further Table.merge call starts no thread
\* and returns False, and two executions of _merge never overlap
C34_OneMergeAtATime ==
    [][OneMergeBody(table', worker') /\ MergeRefused]_vars

\* a call of Table.merge was refused while the merge thread, which has run
\* the body of _merge and released the merge lock, was still alive
C34_Witness ==
    /\ last.op = "merge"
    /\ last.ret = RetFalse
    /\ \E n \in DOMAIN worker : worker[n].pc = "released"

\* the threads that are inside a call of the buffer pool that adds or
\* removes frames: a transaction thread in get_page(last_path) of insert, a
\* merge thread in the body of _merge
InPool(transactions, threads) ==
    {t \in DOMAIN transactions : transactions[t].pc = "get_page"}
        \cup {MergeThreadName(n) : n \in InBody(threads)}

\* a step of a thread that adds a frame to the pool or removes one is made
\* by the holder of the write-vs-merge mutex
MutatesUnderMutex ==
    (FramePaths(bufferpool') # FramePaths(bufferpool) /\ "thread" \in DOMAIN last')
        => table.write_merge_lock = last'.thread

\* C37: no two threads (transaction workers and the merge thread) ever
\* execute a structural mutation of the buffer pool of the same table at
\* the same time: every add_frame that may evict, every frame removal and
\* every rename_frame runs while the calling thread holds the write-vs-merge
\* mutex of the table
C37_PoolMutationsUnderMutex ==
    [][/\ Cardinality(InPool(txn', worker')) <= 1
       /\ MutatesUnderMutex]_vars

====
